---- MODULE Spec2Model ----
(***************************************************************************)
(* A model of the dex_aggregator contract: the route planner, the          *)
(* persisted continuation state machine driven by submessage replies, the  *)
(* fee deduction and the final settlement.                                 *)
(*                                                                         *)
(* One top-level invocation (a transaction) runs from a submission to the  *)
(* point where no outbound call is outstanding.  The host executes the     *)
(* submessages of a response and re-enters the contract through `reply`.  *)
(* An error anywhere makes the host discard every write of the             *)
(* transaction.                                                            *)
(***************************************************************************)
EXTENDS Integers, Sequences, FiniteSets, TLC

(***************************************************************************)
(* Bounds of the model.                                                    *)
(***************************************************************************)
\* number of top-level submissions explored in one behaviour
MaxTx == 2
\* largest rate (output per unit of input) a venue answers with
MaxRate == 2

(***************************************************************************)
(* Program constants.                                                      *)
(***************************************************************************)
\* Decimal's fractional unit (10^18 in the program; scaled so that the
\* products stay inside TLC's integers; rates are atomics over this unit)
DECIMAL_FRACTIONAL == 100
\* the denominator of a split percentage
PERCENT_DENOMINATOR == 100
\* the modulus of the u8 sum of percentages
U8_MODULUS == 256

(***************************************************************************)
(* Addresses and assets.                                                   *)
(***************************************************************************)
SELF == "aggregator"
ADAPTER == "cw20_adapter"
USER == "user"
ADMIN == "admin"
COLLECTOR == "fee_collector"

NativeToken(denom) == [tag |-> "NativeToken", id |-> denom]
Token(contract_addr) == [tag |-> "Token", id |-> contract_addr]

INJ == NativeToken("inj")
USDT == NativeToken("usdt")
CW_INJ == Token("cw_inj")
CW_USDT == Token("cw_usdt")
ATOM == NativeToken("atom")

IsNative(info) == info.tag = "NativeToken"

Asset(info, amount) == [info |-> info, amount |-> amount]

(***************************************************************************)
(* Operations, splits, stages.                                             *)
(***************************************************************************)
AmmSwap(pool_address, offer, ask) ==
    [ty |-> "AmmSwap", addr |-> pool_address, offer_asset_info |-> offer,
     ask_asset_info |-> ask, min_quantity_tick_size |-> 1]

OrderbookSwap(swap_contract, offer, ask, tick) ==
    [ty |-> "OrderbookSwap", addr |-> swap_contract, offer_asset_info |-> offer,
     ask_asset_info |-> ask, min_quantity_tick_size |-> tick]

Split(path, percent) == [path |-> path, percent |-> percent]

get_operation_input(op) == op.offer_asset_info
get_operation_output(op) == op.ask_asset_info
get_operation_address(op) == op.addr

(***************************************************************************)
(* Arithmetic helpers.                                                     *)
(***************************************************************************)
RECURSIVE SumSeq(_)
SumSeq(s) == IF s = <<>> THEN 0 ELSE Head(s) + SumSeq(Tail(s))

\* Uint128::multiply_ratio: floor(a * numerator / denominator)
multiply_ratio(a, numerator, denominator) == (a * numerator) \div denominator

Amounts(assets) == [i \in 1..Len(assets) |-> assets[i].amount]

Min(S) == CHOOSE x \in S : \A y \in S : x <= y

\* In(value), with value computed once: a local binding (`let`) of the program
Bind(value, In(_)) == CHOOSE out \in {In(v) : v \in {value}} : TRUE

(***************************************************************************)
(* The planner: plan_next_stage.                                           *)
(***************************************************************************)
\* the last declared offer asset of a representation kind
last_offer_info(stage, native) ==
    LET idx == {i \in 1..Len(stage) :
                  IsNative(get_operation_input(stage[i].path[1])) = native}
    IN  IF idx = {} THEN <<>>
        ELSE <<get_operation_input(stage[CHOOSE i \in idx : \A j \in idx : j <= i].path[1])>>

\* the first declared offer asset of a representation kind among the splits
\* of a stage (an Option, as a sequence of length 0 or 1)
first_offer_info(stage, native) ==
    LET idx == {i \in 1..Len(stage) :
                  IsNative(get_operation_input(stage[i].path[1])) = native}
    IN  IF idx = {} THEN <<>>
        ELSE <<get_operation_input(stage[Min(idx)].path[1])>>

\* the amount held of a representation kind
have_of_kind(assets, native) ==
    SumSeq([i \in 1..Len(assets) |->
              IF IsNative(assets[i].info) = native THEN assets[i].amount ELSE 0])

\* the info of the first held asset of a representation kind
first_held_info(assets, native) ==
    LET idx == {i \in 1..Len(assets) : IsNative(assets[i].info) = native}
    IN  IF idx = {} THEN <<>> ELSE <<assets[Min(idx)].info>>

\* the share of a split by its percentage
percent_amount(total, percent) == multiply_ratio(total, percent, PERCENT_DENOMINATOR)

\* the need of a representation kind: the sum of the percentage shares of the
\* splits whose first operation takes that kind
needs_of_kind(total, stage, native) ==
    SumSeq([i \in 1..Len(stage) |->
              IF IsNative(get_operation_input(stage[i].path[1])) = native
              THEN percent_amount(total, stage[i].percent) ELSE 0])

\* the conversion of the surplus of one kind into the other kind, if any
conversion_for_kind(assets, stage, total, native) ==
    LET have == have_of_kind(assets, native)
        needs == needs_of_kind(total, stage, native)
        target == first_offer_info(stage, ~native)
        from == first_held_info(assets, native)
    IN  IF have > needs /\ target # <<>> /\ from # <<>>
        THEN <<[asset |-> Asset(from[1], have - needs), target |-> target[1]]>>
        ELSE <<>>

\* native_allocated + cw20_allocated before split i
RECURSIVE allocated_before(_, _, _)
allocated_before(total, stage, i) ==
    IF i <= 1 THEN 0
    ELSE allocated_before(total, stage, i - 1)
         + percent_amount(total, stage[i - 1].percent)

\* a subtraction that stops at zero
saturating_remainder(total, already_allocated) ==
    IF already_allocated > total THEN 0 ELSE total - already_allocated

\* the last split takes what the earlier splits left (checked_sub: a negative
\* value stands for the overflow error)
remainder_amount(total, already_allocated) == total - already_allocated

amount_for_split(total, stage, i) ==
    IF i < Len(stage) THEN percent_amount(total, stage[i].percent)
    ELSE remainder_amount(total, allocated_before(total, stage, i))

plan_next_stage(accumulated_assets, next_stage) ==
    IF \E i \in 1..Len(next_stage) : next_stage[i].path = <<>>
    THEN [err |-> "EmptyRoute", swaps_to_execute |-> <<>>, conversions_needed |-> <<>>]
    ELSE
    LET total_logical_amount == have_of_kind(accumulated_assets, TRUE)
                                + have_of_kind(accumulated_assets, FALSE)
        conversions ==
            conversion_for_kind(accumulated_assets, next_stage, total_logical_amount, TRUE)
            \o conversion_for_kind(accumulated_assets, next_stage, total_logical_amount, FALSE)
        swaps == [i \in 1..Len(next_stage) |->
                    [operation |-> next_stage[i].path[1],
                     amount |-> amount_for_split(total_logical_amount, next_stage, i)]]
    IN  IF Len(next_stage) > 0 /\ swaps[Len(next_stage)].amount < 0
        THEN [err |-> "Overflow", swaps_to_execute |-> <<>>, conversions_needed |-> <<>>]
        ELSE [err |-> "none", swaps_to_execute |-> swaps, conversions_needed |-> conversions]


(***************************************************************************)
(* The simulator: the allocation of simulate_route.                        *)
(***************************************************************************)
\* grouped_inputs: the total of the current assets of exactly one asset info
grouped_input(current_assets, info) ==
    SumSeq([i \in 1..Len(current_assets) |->
              IF current_assets[i].info = info THEN current_assets[i].amount ELSE 0])

\* amount_for_split of simulate_route: the percentage of the pile of the
\* split's own input asset, the last split of the stage taking what the
\* earlier splits of the same input asset left of that pile (checked_sub: a
\* negative value stands for the overflow error)
simulated_amount_for_split(current_assets, stage, i) ==
    LET path_input_info == get_operation_input(stage[i].path[1])
        total_amount_for_type == grouped_input(current_assets, path_input_info)
        already_allocated ==
            SumSeq([j \in 1..(i - 1) |->
                      IF get_operation_input(stage[j].path[1]) = path_input_info
                      THEN percent_amount(total_amount_for_type, stage[j].percent)
                      ELSE 0])
    IN  IF i < Len(stage)
        THEN percent_amount(total_amount_for_type, stage[i].percent)
        ELSE total_amount_for_type - already_allocated


(***************************************************************************)
(* Persisted records.                                                      *)
(***************************************************************************)
RoutePlan(sender, minimum_receive, stages) ==
    [sender |-> sender, minimum_receive |-> minimum_receive, stages |-> stages]

ExecutionState(awaiting, current_stage_index, replies_expected, accumulated_assets, pending_swaps, pending_path_op) ==
    [awaiting |-> awaiting, current_stage_index |-> current_stage_index,
     replies_expected |-> replies_expected,
     accumulated_assets |-> accumulated_assets,
     pending_swaps |-> pending_swaps, pending_path_op |-> pending_path_op]

(***************************************************************************)
(* Outbound messages.  A submessage (a call with a reply) is a record      *)
(* [kind, addr, ty, info, amount, reply_on, op]; a plain message is a      *)
(* transfer [to, info, amount, why].                                       *)
(***************************************************************************)
\* the policy under which a failed call is delivered to the reply handler
ReplyAlways == "always"

\* the reply policy of every submessage the contract creates
ReplyOn == "success"

\* op: the operation a swap call was created for (<<>> for other calls); it is
\* bookkeeping of the model, the contract never reads it back
SubMsg(kind, addr, ty, info, amount, op) ==
    [kind |-> kind, addr |-> addr, ty |-> ty, info |-> info, amount |-> amount,
     reply_on |-> ReplyOn, op |-> op]

MsgOk(call) == [err |-> "none", call |-> call]
MsgErr(e) == [err |-> e, call |-> SubMsg("none", "", "", INJ, 0, <<>>)]

\* the amount an order-book venue is sent: rounded down to its tick size
rounded_atomic_amount(amount, tick_size_atomic) ==
    (amount \div tick_size_atomic) * tick_size_atomic

\* query_ok: whether the order-book venue answers the output-quantity query
create_swap_cosmos_msg(operation, offer_asset_info, amount, query_ok) ==
    IF operation.ty = "AmmSwap"
    THEN MsgOk(SubMsg("swap", operation.addr, "AmmSwap", offer_asset_info, amount,
                      <<operation>>))
    ELSE IF operation.min_quantity_tick_size = 0
    THEN MsgErr("Std")
    ELSE IF rounded_atomic_amount(amount, operation.min_quantity_tick_size) = 0
    THEN MsgOk(SubMsg("noop", SELF, "", offer_asset_info, 0, <<>>))
    ELSE IF ~IsNative(operation.offer_asset_info)
    THEN MsgErr("Std")
    ELSE IF ~IsNative(operation.ask_asset_info)
    THEN MsgErr("Std")
    ELSE IF ~query_ok
    THEN MsgErr("Std")
    ELSE MsgOk(SubMsg("swap", operation.addr, "OrderbookSwap",
                      operation.offer_asset_info,
                      rounded_atomic_amount(amount, operation.min_quantity_tick_size),
                      <<operation>>))

create_conversion_msg(from) ==
    SubMsg("convert", ADAPTER, "", from.info, from.amount, <<>>)

create_send_msg(recipient, asset_info, amount, why) ==
    [to |-> recipient, info |-> asset_info, amount |-> amount, why |-> why]

(***************************************************************************)
(* What a handler returns: an error, or the write it made to               *)
(* EXECUTION_STATES / ROUTE_PLANS and the response.                        *)
(***************************************************************************)
NoExecState == ExecutionState("Swaps", 0, 0, <<>>, <<>>, <<>>)

Failure(e) ==
    [err |-> e, store |-> "none", es |-> NoExecState, submsgs |-> <<>>,
     msgs |-> <<>>, action |-> "", final_received |-> -1]

Saved(es, submsgs, action) ==
    [err |-> "none", store |-> "save", es |-> es, submsgs |-> submsgs,
     msgs |-> <<>>, action |-> action, final_received |-> -1]

\* the completion that leaves the records in place
completed_keeping_records(msgs, action, final_received) ==
    [err |-> "none", store |-> "none", es |-> NoExecState, submsgs |-> <<>>,
     msgs |-> msgs, action |-> action, final_received |-> final_received]

Removed(msgs, action, final_received) ==
    [err |-> "none", store |-> "remove", es |-> NoExecState, submsgs |-> <<>>,
     msgs |-> msgs, action |-> action, final_received |-> final_received]

(***************************************************************************)
(* Final settlement: handle_final_stage.                                   *)
(***************************************************************************)
\* the payout: a transfer of the total to the plan's sender, unless it is zero
payout_msgs(plan, asset_info, total_final_amount) ==
    IF total_final_amount # 0
    THEN <<create_send_msg(plan.sender, asset_info, total_final_amount, "payout")>>
    ELSE <<>>

\* the check that always passes
minimum_never_checked(total_final_amount, plan) == FALSE

\* the check against the plan's minimum_receive
minimum_not_met(total_final_amount, plan) ==
    total_final_amount < plan.minimum_receive

complete(plan, asset_info, total_final_amount) ==
    IF minimum_not_met(total_final_amount, plan)
    THEN Failure("MinimumReceiveNotMet")
    ELSE Removed(payout_msgs(plan, asset_info, total_final_amount),
                 "aggregate_swap_complete", total_final_amount)

\* the settlement that completes an empty accumulation whatever the minimum
handle_final_stage_empty_accepted(exec_state, plan) ==
    IF exec_state.accumulated_assets = <<>>
    THEN Removed(<<>>, "aggregate_swap_complete_empty", -1)
    ELSE
    LET acc == exec_state.accumulated_assets
        target_asset_info == acc[1].info
        ready_amount ==
            SumSeq([i \in 1..Len(acc) |->
                      IF acc[i].info = target_asset_info THEN acc[i].amount ELSE 0])
        others == SelectSeq(acc, LAMBDA a : a.info # target_asset_info)
        conversion_submsgs ==
            [i \in 1..Len(others) |-> create_conversion_msg(others[i])]
    IN  IF conversion_submsgs = <<>>
        THEN complete(plan, target_asset_info, ready_amount)
        ELSE Saved([exec_state EXCEPT
                      !.awaiting = "FinalConversions",
                      !.replies_expected = Len(conversion_submsgs),
                      !.accumulated_assets = <<Asset(target_asset_info, ready_amount)>>],
                   conversion_submsgs, "final_asset_normalization_started")

\* the settlement that normalizes to the last accumulated asset
handle_final_stage_last_target(exec_state, plan) ==
    IF exec_state.accumulated_assets = <<>>
    THEN IF plan.minimum_receive # 0
         THEN Failure("MinimumReceiveNotMet")
         ELSE Removed(<<>>, "aggregate_swap_complete_empty", -1)
    ELSE
    LET acc == exec_state.accumulated_assets
        target_asset_info == acc[Len(acc)].info
        ready_amount ==
            SumSeq([i \in 1..Len(acc) |->
                      IF acc[i].info = target_asset_info THEN acc[i].amount ELSE 0])
        others == SelectSeq(acc, LAMBDA a : a.info # target_asset_info)
        conversion_submsgs ==
            [i \in 1..Len(others) |-> create_conversion_msg(others[i])]
    IN  IF conversion_submsgs = <<>>
        THEN complete(plan, target_asset_info, ready_amount)
        ELSE Saved([exec_state EXCEPT
                      !.awaiting = "FinalConversions",
                      !.replies_expected = Len(conversion_submsgs),
                      !.accumulated_assets = <<Asset(target_asset_info, ready_amount)>>],
                   conversion_submsgs, "final_asset_normalization_started")

\* the settlement that keeps the whole accumulation while it waits
handle_final_stage_keeping_accumulation(exec_state, plan) ==
    IF exec_state.accumulated_assets = <<>>
    THEN IF plan.minimum_receive # 0
         THEN Failure("MinimumReceiveNotMet")
         ELSE Removed(<<>>, "aggregate_swap_complete_empty", -1)
    ELSE
    LET acc == exec_state.accumulated_assets
        target_asset_info == acc[1].info
        ready_amount ==
            SumSeq([i \in 1..Len(acc) |->
                      IF acc[i].info = target_asset_info THEN acc[i].amount ELSE 0])
        others == SelectSeq(acc, LAMBDA a : a.info # target_asset_info)
        conversion_submsgs ==
            [i \in 1..Len(others) |-> create_conversion_msg(others[i])]
    IN  IF conversion_submsgs = <<>>
        THEN complete(plan, target_asset_info, ready_amount)
        ELSE Saved([exec_state EXCEPT
                      !.awaiting = "FinalConversions",
                      !.replies_expected = Len(conversion_submsgs),
                      !.accumulated_assets =
                          <<Asset(target_asset_info, ready_amount)>> \o others],
                   conversion_submsgs, "final_asset_normalization_started")

handle_final_stage(exec_state, plan) ==
    IF exec_state.accumulated_assets = <<>>
    THEN IF plan.minimum_receive # 0
         THEN Failure("MinimumReceiveNotMet")
         ELSE Removed(<<>>, "aggregate_swap_complete_empty", -1)
    ELSE
    LET acc == exec_state.accumulated_assets
        target_asset_info == acc[1].info
        ready_amount ==
            SumSeq([i \in 1..Len(acc) |->
                      IF acc[i].info = target_asset_info THEN acc[i].amount ELSE 0])
        others == SelectSeq(acc, LAMBDA a : a.info # target_asset_info)
        conversion_submsgs ==
            [i \in 1..Len(others) |-> create_conversion_msg(others[i])]
    IN  IF conversion_submsgs = <<>>
        THEN complete(plan, target_asset_info, ready_amount)
        ELSE Saved([exec_state EXCEPT
                      !.awaiting = "FinalConversions",
                      !.replies_expected = Len(conversion_submsgs),
                      !.accumulated_assets = <<Asset(target_asset_info, ready_amount)>>],
                   conversion_submsgs, "final_asset_normalization_started")

(***************************************************************************)
(* Stage advance: proceed_to_next_step and execute_planned_swaps.          *)
(***************************************************************************)
\* every planned swap dispatched, whatever its amount
dispatch_all(swap) == TRUE

\* no planned swap dispatched
dispatch_none(swap) == FALSE

\* a planned swap is dispatched only if its amount is not zero
dispatchable(swap) == swap.amount # 0

first_error(results) ==
    LET bad == {i \in 1..Len(results) : results[i].err # "none"}
    IN  IF bad = {} THEN "none" ELSE results[Min(bad)].err

\* execute_planned_swaps up to its choice between saving and moving on: the
\* messages of the swaps with a nonzero amount
planned_swap_msgs(swaps, query_ok) ==
    LET todo == SelectSeq(swaps, dispatchable)
        made == [i \in 1..Len(todo) |->
                   create_swap_cosmos_msg(todo[i].operation,
                                          get_operation_input(todo[i].operation),
                                          todo[i].amount, query_ok)]
    IN  [err |-> first_error(made),
         submessages |-> [i \in 1..Len(made) |-> made[i].call]]

\* the save that leaves replies_expected as the previous phase left it
awaiting_swaps_uncounted(exec_state, submessages) ==
    Saved([exec_state EXCEPT !.awaiting = "Swaps"],
          submessages, "executing_planned_swaps")

awaiting_swaps(exec_state, submessages) ==
    Saved([exec_state EXCEPT !.awaiting = "Swaps",
                             !.replies_expected = Len(submessages)],
          submessages, "executing_planned_swaps")

\* proceed_to_next_step calls execute_planned_swaps, which calls it back with
\* the next stage index when no swap is dispatched: from[k] is the outcome of
\* proceed_to_next_step entered at stage index k on that chain
proceed_to_next_step(exec_state, plan, query_ok) ==
    Bind(exec_state, LAMBDA state :
    LET from[k \in Nat] ==
          LET entered == IF k = state.current_stage_index
                         THEN state
                         ELSE [state EXCEPT !.current_stage_index = k,
                                            !.accumulated_assets = <<>>]
              cleared == [entered EXCEPT !.accumulated_assets = <<>>]
          IN  IF k >= Len(plan.stages)
              THEN handle_final_stage(entered, plan)
              ELSE
              Bind(plan_next_stage(entered.accumulated_assets, plan.stages[k + 1]),
                   LAMBDA stage_plan :
              LET conversion_submsgs ==
                      [i \in 1..Len(stage_plan.conversions_needed) |->
                         create_conversion_msg(stage_plan.conversions_needed[i].asset)]
              IN  IF stage_plan.err # "none"
                  THEN Failure(stage_plan.err)
                  ELSE IF stage_plan.conversions_needed # <<>>
                  THEN Saved([cleared EXCEPT
                                 !.awaiting = "Conversions",
                                 !.replies_expected = Len(conversion_submsgs),
                                 !.pending_swaps = stage_plan.swaps_to_execute],
                             conversion_submsgs, "performing_minimal_conversions")
                  ELSE
                  Bind(planned_swap_msgs(stage_plan.swaps_to_execute, query_ok),
                       LAMBDA planned :
                  IF planned.err # "none"
                  THEN Failure(planned.err)
                  ELSE IF planned.submessages = <<>>
                  THEN from[k + 1]
                  ELSE awaiting_swaps(cleared, planned.submessages)))
    IN  from[state.current_stage_index])

execute_planned_swaps(exec_state, plan, swaps, query_ok) ==
    Bind(planned_swap_msgs(swaps, query_ok), LAMBDA planned :
        IF planned.err # "none"
        THEN Failure(planned.err)
        ELSE IF planned.submessages = <<>>
        THEN proceed_to_next_step(
                 [exec_state EXCEPT !.current_stage_index = @ + 1], plan, query_ok)
        ELSE awaiting_swaps(exec_state, planned.submessages))


(***************************************************************************)
(* Replies.  A reply carries the result of the submessage: an error, or    *)
(* the list of events; an event has a type and attributes (key :> value).  *)
(* An amount attribute is Num(n), or Malformed when it does not parse.     *)
(***************************************************************************)
Num(n) == [ok |-> TRUE, n |-> n]
Malformed == [ok |-> FALSE, n |-> 0]

Event(ty, attrs) == [ty |-> ty, attrs |-> attrs]
ReplyOk(events) == [ok |-> TRUE, events |-> events]
ReplyErr == [ok |-> FALSE, events |-> <<>>]

has_attr(e, key) == key \in DOMAIN e.attrs
is_wasm(e) == e.ty \in {"wasm", "wasm-atomic_swap_execution"}

Max(S) == CHOOSE x \in S : \A y \in S : x >= y

\* the index of the last wasm event carrying an amount attribute (0: none)
find_swap_event(events) ==
    LET idx == {i \in 1..Len(events) :
                  /\ is_wasm(events[i])
                  /\ \/ has_attr(events[i], "return_amount")
                     \/ has_attr(events[i], "swap_final_amount")}
    IN  IF idx = {} THEN 0 ELSE Max(idx)

amount_key(e) ==
    IF e.ty = "wasm-atomic_swap_execution" THEN "swap_final_amount" ELSE "return_amount"

\* [err, amount]: the amount of the first wasm event that has the key of its type
parse_amount_from_swap_reply(events) ==
    LET idx == {i \in 1..Len(events) :
                  is_wasm(events[i]) /\ has_attr(events[i], amount_key(events[i]))}
    IN  IF idx = {} THEN [err |-> "none", amount |-> 0]
        ELSE LET e == events[Min(idx)]
                 v == e.attrs[amount_key(e)]
             IN  IF v.ok THEN [err |-> "none", amount |-> v.n]
                 ELSE [err |-> "MalformedAmountInReply", amount |-> 0]

parse_amount_from_conversion_reply(events) ==
    LET transfers == {i \in 1..Len(events) :
                        /\ events[i].ty = "transfer"
                        /\ has_attr(events[i], "recipient")
                        /\ events[i].attrs["recipient"] = SELF}
        wasms == {i \in 1..Len(events) :
                    /\ is_wasm(events[i])
                    /\ has_attr(events[i], "action")
                    /\ events[i].attrs["action"] = "transfer"}
        chosen == IF transfers # {} THEN <<events[Min(transfers)]>>
                  ELSE IF wasms # {} THEN <<events[Min(wasms)]>>
                  ELSE <<>>
    IN  IF chosen = <<>> THEN [err |-> "NoConversionEventInReply", amount |-> 0]
        ELSE IF ~has_attr(chosen[1], "amount")
        THEN [err |-> "NoAmountInReply", amount |-> 0]
        ELSE IF ~chosen[1].attrs["amount"].ok
        THEN [err |-> "MalformedAmountInReply", amount |-> 0]
        ELSE [err |-> "none", amount |-> chosen[1].attrs["amount"].n]

(***************************************************************************)
(* The fee of a completed swap.                                            *)
(***************************************************************************)
\* fee_map: venue address -> <<>> (no entry) or <<atomics>>
fee_for(fee_map, pool_addr, received_amount) ==
    IF pool_addr \in DOMAIN fee_map /\ fee_map[pool_addr] # <<>>
    THEN multiply_ratio(received_amount, fee_map[pool_addr][1], DECIMAL_FRACTIONAL)
    ELSE 0

\* the amount pushed onto accumulated_assets for a completed swap
amount_after_fee(received_amount, fee) == received_amount - fee

(***************************************************************************)
(* The reply handlers.                                                     *)
(***************************************************************************)
\* the first (split, op) of the stage whose venue address is the given one
find_replied_path(stage, addr) ==
    LET hits == UNION {{<<si, oi>> : oi \in {o \in 1..Len(stage[si].path) :
                            get_operation_address(stage[si].path[o]) = addr}} :
                       si \in 1..Len(stage)}
        first_split == Min({h[1] : h \in hits})
        first_op == Min({h[2] : h \in {g \in hits : g[1] = first_split}})
    IN  IF hits = {} THEN <<>> ELSE <<first_split, first_op>>

\* the continuation that advances on every reply, counted to zero or not
count_reply_advancing(exec_state, plan, action, query_ok) ==
    IF exec_state.replies_expected = 0
    THEN Failure("Panic")
    ELSE proceed_to_next_step(
             [exec_state EXCEPT !.replies_expected = @ - 1,
                                !.current_stage_index = @ + 1], plan, query_ok)

\* replies_expected -= 1 and the continuation shared by the swap handlers:
\* save while replies are outstanding, else advance to the next stage
\* the count that saves the state also when no reply is expected any more
count_reply_saving_at_zero(exec_state, plan, action, query_ok) ==
    IF exec_state.replies_expected = 0
    THEN Failure("Panic")
    ELSE Saved([exec_state EXCEPT !.replies_expected = @ - 1], <<>>, action)

count_reply(exec_state, plan, action, query_ok) ==
    IF exec_state.replies_expected = 0
    THEN Failure("Panic")
    ELSE IF exec_state.replies_expected - 1 > 0
    THEN Saved([exec_state EXCEPT !.replies_expected = @ - 1], <<>>, action)
    ELSE proceed_to_next_step(
             [exec_state EXCEPT !.replies_expected = @ - 1,
                                !.current_stage_index = @ + 1], plan, query_ok)

\* the fee sent to the collector named at instantiation
with_fee_msg_to_first_collector(outcome, config, asset_info, fee) ==
    Bind(outcome, LAMBDA response :
        IF response.err = "none" /\ fee # 0
        THEN [response EXCEPT
                !.msgs = @ \o <<create_send_msg(COLLECTOR, asset_info, fee, "fee")>>]
        ELSE response)

with_fee_msg(outcome, config, asset_info, fee) ==
    Bind(outcome, LAMBDA response :
        IF response.err = "none" /\ fee # 0
        THEN [response EXCEPT
                !.msgs = @ \o <<create_send_msg(config.fee_collector, asset_info,
                                                fee, "fee")>>]
        ELSE response)

handle_swap_reply(exec_state, plan, msg, fee_map, config, query_ok) ==
    IF ~msg.ok THEN Failure("SubmessageResultError")
    ELSE IF find_swap_event(msg.events) = 0
    THEN count_reply(exec_state, plan, "accumulating_path_outputs", query_ok)
    ELSE
    LET swap_event == msg.events[find_swap_event(msg.events)]
    IN  IF ~has_attr(swap_event, "_contract_address")
        THEN Failure("Std")
        ELSE IF exec_state.current_stage_index >= Len(plan.stages)
        THEN Failure("EmptyRoute")
        ELSE
        LET replying_pool_addr == swap_event.attrs["_contract_address"]
            current_stage == plan.stages[exec_state.current_stage_index + 1]
            replied == find_replied_path(current_stage, replying_pool_addr)
            parsed == parse_amount_from_swap_reply(msg.events)
        IN  IF replied = <<>> THEN Failure("Std")
            ELSE IF parsed.err # "none" THEN Failure(parsed.err)
            ELSE
            LET replied_path == current_stage[replied[1]].path
                replied_op == replied_path[replied[2]]
                received_amount == parsed.amount
                received_asset_info == get_operation_output(replied_op)
            IN  IF replied[2] < Len(replied_path)
                THEN LET next_op == replied_path[replied[2] + 1]
                         required_input_info == get_operation_input(next_op)
                         next_msg == create_swap_cosmos_msg(
                                         next_op, received_asset_info,
                                         received_amount, query_ok)
                     IN  IF received_asset_info # required_input_info
                         THEN Saved([exec_state EXCEPT
                                       !.awaiting = "PathConversion",
                                       !.pending_path_op =
                                           <<[operation |-> next_op,
                                              amount |-> received_amount]>>],
                                    <<create_conversion_msg(
                                         Asset(received_asset_info, received_amount))>>,
                                    "performing_path_conversion")
                         ELSE IF next_msg.err # "none" THEN Failure(next_msg.err)
                         ELSE Saved(exec_state, <<next_msg.call>>,
                                    "proceeding_to_next_op_in_path")
                ELSE LET fee == fee_for(fee_map, replying_pool_addr, received_amount)
                         net == amount_after_fee(received_amount, fee)
                     IN  IF net < 0 THEN Failure("Overflow")
                         ELSE with_fee_msg(
                                  count_reply(
                                      [exec_state EXCEPT
                                         !.accumulated_assets =
                                             Append(@, Asset(received_asset_info, net))],
                                      plan, "accumulating_path_outputs", query_ok),
                                  config, received_asset_info, fee)

handle_final_conversion_reply(exec_state, plan, msg) ==
    IF ~msg.ok THEN Failure("SubmessageResultError")
    ELSE
    LET parsed == parse_amount_from_conversion_reply(msg.events)
    IN  IF parsed.err # "none" THEN Failure(parsed.err)
        ELSE IF exec_state.accumulated_assets = <<>> THEN Failure("Std")
        ELSE IF exec_state.replies_expected = 0 THEN Failure("Panic")
        ELSE
        LET running_total_asset ==
                Asset(exec_state.accumulated_assets[1].info,
                      exec_state.accumulated_assets[1].amount + parsed.amount)
        IN  IF exec_state.replies_expected - 1 > 0
            THEN Saved([exec_state EXCEPT
                          !.accumulated_assets[1] = running_total_asset,
                          !.replies_expected = @ - 1],
                       <<>>, "accumulating_final_conversions")
            ELSE complete(plan, running_total_asset.info, running_total_asset.amount)

\* the handler that leaves pending_swaps in the state it saves
handle_conversion_reply_keeping_pending(exec_state, plan, msg, query_ok) ==
    IF exec_state.replies_expected = 0 THEN Failure("Panic")
    ELSE IF exec_state.replies_expected - 1 > 0
    THEN Saved([exec_state EXCEPT !.replies_expected = @ - 1], <<>>,
               "accumulating_conversion_outputs")
    ELSE execute_planned_swaps(
             [exec_state EXCEPT !.replies_expected = @ - 1],
             plan, exec_state.pending_swaps, query_ok)

handle_conversion_reply(exec_state, plan, msg, query_ok) ==
    IF exec_state.replies_expected = 0 THEN Failure("Panic")
    ELSE IF exec_state.replies_expected - 1 > 0
    THEN Saved([exec_state EXCEPT !.replies_expected = @ - 1], <<>>,
               "accumulating_conversion_outputs")
    ELSE execute_planned_swaps(
             [exec_state EXCEPT !.replies_expected = @ - 1, !.pending_swaps = <<>>],
             plan, exec_state.pending_swaps, query_ok)

\* the handler that saves without setting awaiting back to Swaps
handle_path_conversion_reply_still_waiting(exec_state, plan, msg, query_ok) ==
    IF ~msg.ok THEN Failure("SubmessageResultError")
    ELSE
    LET parsed == parse_amount_from_conversion_reply(msg.events)
    IN  IF parsed.err # "none" THEN Failure(parsed.err)
        ELSE IF exec_state.pending_path_op = <<>> THEN Failure("Std")
        ELSE
        LET pending_op_details == exec_state.pending_path_op[1]
            swap_msg == create_swap_cosmos_msg(
                            pending_op_details.operation,
                            get_operation_input(pending_op_details.operation),
                            parsed.amount, query_ok)
        IN  IF swap_msg.err # "none" THEN Failure(swap_msg.err)
            ELSE Saved([exec_state EXCEPT !.pending_path_op = <<>>],
                       <<swap_msg.call>>, "resuming_path_after_conversion")

\* the handler that leaves the recorded hop in the state it saves
handle_path_conversion_reply_keeping_op(exec_state, plan, msg, query_ok) ==
    IF ~msg.ok THEN Failure("SubmessageResultError")
    ELSE
    LET parsed == parse_amount_from_conversion_reply(msg.events)
    IN  IF parsed.err # "none" THEN Failure(parsed.err)
        ELSE IF exec_state.pending_path_op = <<>> THEN Failure("Std")
        ELSE
        LET pending_op_details == exec_state.pending_path_op[1]
            swap_msg == create_swap_cosmos_msg(
                            pending_op_details.operation,
                            get_operation_input(pending_op_details.operation),
                            parsed.amount, query_ok)
        IN  IF swap_msg.err # "none" THEN Failure(swap_msg.err)
            ELSE Saved([exec_state EXCEPT !.awaiting = "Swaps"],
                       <<swap_msg.call>>, "resuming_path_after_conversion")

handle_path_conversion_reply(exec_state, plan, msg, query_ok) ==
    IF ~msg.ok THEN Failure("SubmessageResultError")
    ELSE
    LET parsed == parse_amount_from_conversion_reply(msg.events)
    IN  IF parsed.err # "none" THEN Failure(parsed.err)
        ELSE IF exec_state.pending_path_op = <<>> THEN Failure("Std")
        ELSE
        LET pending_op_details == exec_state.pending_path_op[1]
            swap_msg == create_swap_cosmos_msg(
                            pending_op_details.operation,
                            get_operation_input(pending_op_details.operation),
                            parsed.amount, query_ok)
        IN  IF swap_msg.err # "none" THEN Failure(swap_msg.err)
            ELSE Saved([exec_state EXCEPT !.pending_path_op = <<>>,
                                          !.awaiting = "Swaps"],
                       <<swap_msg.call>>, "resuming_path_after_conversion")

\* handle_reply, once both records of the id are loaded
dispatch_reply(exec_state, plan, msg, fee_map, config, query_ok) ==
    CASE exec_state.awaiting = "Swaps" ->
             handle_swap_reply(exec_state, plan, msg, fee_map, config, query_ok)
      [] exec_state.awaiting = "Conversions" ->
             handle_conversion_reply(exec_state, plan, msg, query_ok)
      [] exec_state.awaiting = "FinalConversions" ->
             handle_final_conversion_reply(exec_state, plan, msg)
      [] exec_state.awaiting = "PathConversion" ->
             handle_path_conversion_reply(exec_state, plan, msg, query_ok)


(***************************************************************************)
(* Submission: execute_aggregate_swaps_internal.                           *)
(***************************************************************************)
\* the sum of u8 values as the build computes it: with overflow checks a sum
\* above 255 panics, without them it wraps
u8_sum(values, wrapping) ==
    LET t == SumSeq(values)
    IN  IF t < U8_MODULUS THEN [panic |-> FALSE, value |-> t]
        ELSE IF wrapping THEN [panic |-> FALSE, value |-> t % U8_MODULUS]
        ELSE [panic |-> TRUE, value |-> 0]

Percents(splits) == [i \in 1..Len(splits) |-> splits[i].percent]

\* an id that is not advanced
reused_reply_id(stored_counter) == stored_counter

\* REPLY_ID_COUNTER.may_load(..).unwrap_or(0) + 1
next_reply_id(stored_counter) == stored_counter + 1

\* the checks in the other order
validate_stages_first(offer_asset, stages) ==
    IF stages = <<>> THEN "NoStages"
    ELSE IF offer_asset.amount = 0 THEN "ZeroAmount"
    ELSE "none"

\* the checks made before anything is allocated or written
validate(offer_asset, stages) ==
    IF offer_asset.amount = 0 THEN "ZeroAmount"
    ELSE IF stages = <<>> THEN "NoStages"
    ELSE "none"

\* minimum_receive_str: <<>> (None) or <<v>> with v = Num(n) or Malformed
\* The result names the writes made before it returned: counter_saved, plan_saved.
execute_aggregate_swaps_internal(stored_counter, stages, minimum_receive_str, offer_asset, initiator, wrapping, query_ok) ==
    LET rejected(e) == [err |-> e, reply_id |-> 0, counter_saved |-> FALSE,
                        plan_saved |-> FALSE,
                        plan |-> RoutePlan(initiator, 0, stages), out |-> Failure(e)]
    IN
    IF validate(offer_asset, stages) # "none"
    THEN rejected(validate(offer_asset, stages))
    ELSE
    LET total_percentage == u8_sum(Percents(stages[1]), wrapping)
        reply_id == next_reply_id(stored_counter)
    IN  IF total_percentage.panic THEN rejected("Panic")
        ELSE IF total_percentage.value # 100 THEN rejected("InvalidPercentageSum")
        ELSE IF minimum_receive_str # <<>> /\ ~minimum_receive_str[1].ok
        THEN [rejected("Std") EXCEPT !.reply_id = reply_id, !.counter_saved = TRUE]
        ELSE
        LET minimum_receive ==
                IF minimum_receive_str = <<>> THEN 0 ELSE minimum_receive_str[1].n
            plan == RoutePlan(initiator, minimum_receive, stages)
            initial_exec_state ==
                ExecutionState("Swaps", 0, 0, <<offer_asset>>, <<>>, <<>>)
        IN  Bind(proceed_to_next_step(initial_exec_state, plan, query_ok),
                 LAMBDA out :
                     [err |-> out.err, reply_id |-> reply_id, counter_saved |-> TRUE,
                      plan_saved |-> TRUE, plan |-> plan, out |-> out])

(***************************************************************************)
(* The venues and the adapter, as the host reports them.                   *)
(***************************************************************************)
SwapReplyEvent(call, amount) ==
    IF call.ty = "OrderbookSwap"
    THEN Event("wasm-atomic_swap_execution",
               ("_contract_address" :> call.addr) @@ ("swap_final_amount" :> Num(amount)))
    ELSE Event("wasm",
               ("_contract_address" :> call.addr) @@ ("return_amount" :> Num(amount)))

ConversionReplyEvent(call) ==
    IF IsNative(call.info)
    THEN Event("wasm", ("action" :> "transfer") @@ ("to" :> SELF)
                       @@ ("amount" :> Num(call.amount)))
    ELSE Event("transfer", ("recipient" :> SELF) @@ ("amount" :> Num(call.amount)))

\* what a successful call may report: a venue pays amount * rate, or nothing
\* (no swap event); the adapter converts one to one
Replies(call) ==
    CASE call.kind = "swap" ->
             {ReplyOk(<<>>)}
             \cup {ReplyOk(<<SwapReplyEvent(call, call.amount * r)>>) : r \in 1..MaxRate}
      [] call.kind = "convert" -> {ReplyOk(<<ConversionReplyEvent(call)>>)}
      [] OTHER -> {}


(***************************************************************************)
(* The inputs explored.                                                    *)
(***************************************************************************)
Amm1 == AmmSwap("amm1", INJ, USDT)
Amm2 == AmmSwap("amm2", INJ, USDT)
Ob1(tick) == OrderbookSwap("ob1", INJ, USDT, tick)
Amm3 == AmmSwap("amm3", USDT, INJ)
Amm4 == AmmSwap("amm4", CW_USDT, INJ)
Amm5 == AmmSwap("amm5", INJ, CW_USDT)
Amm6 == AmmSwap("amm6", CW_INJ, USDT)

Routes ==
    { <<>>,
      << <<Split(<<Amm1>>, 100)>> >>,
      << <<Split(<<Amm1>>, 33), Split(<<Amm2>>, 42), Split(<<Ob1(1)>>, 25)>> >>,
      << <<Split(<<Ob1(2)>>, 100)>> >>,
      << <<Split(<<Amm1>>, 100)>>,
         <<Split(<<Amm3>>, 60), Split(<<Amm4>>, 40)>> >>,
      << <<Split(<<Amm1, Amm3>>, 100)>> >>,
      << <<Split(<<Amm1, Amm4>>, 100)>> >>,
      << <<Split(<<Amm1>>, 50), Split(<<Amm2>>, 49)>> >>,
      << <<Split(<<Amm1>>, 200), Split(<<Amm2>>, 156)>> >>,
      << <<Split(<<Amm1>>, 60), Split(<<Amm2>>, 41), Split(<<Ob1(1)>>, 255)>> >>,
      << <<Split(<<Amm1>>, 100)>>,
         <<Split(<<Amm3>>, 60), Split(<<Amm3>>, 60), Split(<<Amm3>>, 10)>> >>,
      << <<Split(<<Amm1>>, 100)>>,
         <<Split(<<Amm3>>, 30), Split(<<Amm3>>, 30)>> >>,
      << <<Split(<<Amm1>>, 50), Split(<<Amm5>>, 50)>> >>,
      << <<Split(<<Amm6>>, 100)>> >>,
      << <<Split(<<OrderbookSwap("ob1", INJ, ATOM, 1), AmmSwap("amm2", ATOM, USDT)>>, 50),
           Split(<<Ob1(1)>>, 50)>> >>,
      << <<Split(<<Amm1>>, 100)>>, <<>> >>,
      << <<Split(<<>>, 100)>> >> }

OfferAmounts == {1, 7}
MinimumReceives == {<<>>, <<Num(10)>>}

Submission(stages, minimum_receive_str, offer_asset) ==
    [stages |-> stages, minimum_receive_str |-> minimum_receive_str,
     offer_asset |-> offer_asset]

SimpleRoute == << <<Split(<<Amm1>>, 100)>> >>

\* every route with every amount and minimum, and the special submissions:
\* a zero amount, an unparsable minimum, a cw20 offer
Submissions ==
    {Submission(r, m, Asset(INJ, a)) :
        r \in Routes, m \in MinimumReceives, a \in OfferAmounts}
    \cup {Submission(r, <<>>, Asset(INJ, 0)) : r \in {<<>>, SimpleRoute}}
    \cup {Submission(SimpleRoute, <<Malformed>>, Asset(INJ, 7))}
    \cup {Submission(r, <<>>, Asset(CW_INJ, 7)) :
             r \in {SimpleRoute, << <<Split(<<Amm6>>, 100)>> >>}}
FeeVenues == {"amm1"}
FeeRates == {10, 50, 100}
Senders == {ADMIN, USER}
\* the addresses the fee collector is set to
Collectors == {COLLECTOR, "fee_collector_2"}

(***************************************************************************)
(* The state.                                                              *)
(***************************************************************************)
VARIABLES
    reply_id_counter,    \* REPLY_ID_COUNTER (0: absent)
    route_plans,         \* ROUTE_PLANS: reply id -> RoutePlan
    execution_states,    \* EXECUTION_STATES: reply id -> ExecutionState
    fee_map,             \* FEE_MAP: venue -> <<>> or <<atomics>>
    config,              \* CONFIG
    status,              \* "idle", or of the transaction: "running", "failed", "done"
    snapshot,            \* the storage when the transaction began
    pending,             \* submessages dispatched and not yet answered
    transfers,           \* the plain messages (bank sends) of the transaction
    tx_input,            \* what the transaction submitted
    last,                \* what the last handler returned
    outputs,             \* what the venues reported in the transaction
    call_failed,         \* an outbound call of the transaction failed
    result,              \* "none", "committed" or "aborted"
    tx_count,            \* submissions so far
    planning             \* the planner run on its own (see SpecPlanner)

vars == <<reply_id_counter, route_plans, execution_states, fee_map, config, status,
          snapshot, pending, transfers, tx_input, last, outputs, call_failed,
          result, tx_count, planning>>

exec_vars == <<reply_id_counter, route_plans, execution_states, fee_map, config,
               status, snapshot, pending, transfers, tx_input, last, outputs,
               call_failed, result, tx_count>>

Storage == [counter |-> reply_id_counter, plans |-> route_plans,
            states |-> execution_states]

NoInput == [stages |-> <<>>, minimum_receive_str |-> <<>>,
            offer_asset |-> Asset(INJ, 0), initiator |-> USER, reply_id |-> 0]

Last(err, action, final_received, reply_id) ==
    [err |-> err, action |-> action, final_received |-> final_received,
     reply_id |-> reply_id]

EmptyMap == [k \in {} |-> 0]

NoPlanning == [step |-> "none"]

InitExec ==
    /\ reply_id_counter = 0
    /\ route_plans = EmptyMap
    /\ execution_states = EmptyMap
    /\ fee_map = [v \in FeeVenues |-> <<>>]
    /\ config = [admin |-> ADMIN, cw20_adapter_address |-> ADAPTER,
                 fee_collector |-> COLLECTOR]
    /\ status = "idle"
    /\ snapshot = [counter |-> 0, plans |-> EmptyMap, states |-> EmptyMap]
    /\ pending = <<>>
    /\ transfers = <<>>
    /\ tx_input = NoInput
    /\ last = Last("none", "", -1, 0)
    /\ outputs = <<>>
    /\ call_failed = FALSE
    /\ result = "none"
    /\ tx_count = 0

Init ==
    /\ InitExec
    /\ planning = NoPlanning

Put(map, key, value) == (key :> value) @@ map
Drop(map, key) == [k \in DOMAIN map \ {key} |-> map[k]]

Tagged(submsgs, reply_id) ==
    [i \in 1..Len(submsgs) |-> [call |-> submsgs[i], id |-> reply_id]]

RemoveAt(seq, i) == SubSeq(seq, 1, i - 1) \o SubSeq(seq, i + 1, Len(seq))

\* the storage writes and the response of a handler that returned Ok
Apply(out, reply_id, remaining) ==
    /\ execution_states' =
           IF out.store = "save" THEN Put(execution_states, reply_id, out.es)
           ELSE IF out.store = "remove" THEN Drop(execution_states, reply_id)
           ELSE execution_states
    /\ pending' = remaining \o Tagged(out.submsgs, reply_id)
    /\ transfers' = transfers \o out.msgs
    /\ last' = Last("none", out.action, out.final_received, reply_id)

\* the transaction ends, and its writes are kept, when no call is outstanding
Settle ==
    /\ status' = IF pending' = <<>> THEN "done" ELSE "running"
    /\ result' = IF pending' = <<>> THEN "committed" ELSE "none"
    /\ snapshot' = IF pending' = <<>>
                   THEN [counter |-> reply_id_counter', plans |-> route_plans',
                         states |-> execution_states']
                   ELSE snapshot

Fail(err, reply_id) ==
    /\ status' = "failed"
    /\ last' = Last(err, "", -1, reply_id)
    /\ UNCHANGED <<pending, transfers, result, snapshot>>


(***************************************************************************)
(* The actions.                                                            *)
(***************************************************************************)
\* execute: ExecuteRoute / Receive(ExecuteRoute), as a new transaction
Submit(stages, minimum_receive_str, offer_asset, initiator, wrapping, query_ok) ==
    /\ UNCHANGED planning
    /\ status = "idle"
    /\ tx_count < MaxTx
    /\ \E r \in {execute_aggregate_swaps_internal(
                    reply_id_counter, stages, minimum_receive_str, offer_asset,
                    initiator, wrapping, query_ok)} :
           /\ tx_count' = tx_count + 1
           /\ tx_input' = [stages |-> stages,
                           minimum_receive_str |-> minimum_receive_str,
                           offer_asset |-> offer_asset, initiator |-> initiator,
                           reply_id |-> r.reply_id]
           /\ outputs' = <<>>
           /\ call_failed' = FALSE
           /\ reply_id_counter' =
                  IF r.counter_saved THEN r.reply_id ELSE reply_id_counter
           /\ route_plans' =
                  IF r.err = "none" /\ r.out.store = "remove" THEN route_plans
                  ELSE IF r.plan_saved THEN Put(route_plans, r.reply_id, r.plan)
                  ELSE route_plans
           /\ IF r.err = "none"
              THEN /\ execution_states' =
                          IF r.out.store = "save"
                          THEN Put(execution_states, r.reply_id, r.out.es)
                          ELSE execution_states
                   /\ pending' = Tagged(r.out.submsgs, r.reply_id)
                   /\ transfers' = r.out.msgs
                   /\ last' = Last("none", r.out.action, r.out.final_received,
                                   r.reply_id)
                   /\ Settle
              ELSE /\ status' = "failed"
                   /\ last' = Last(r.err, "", -1, r.reply_id)
                   /\ pending' = <<>>
                   /\ transfers' = <<>>
                   /\ result' = "none"
                   /\ UNCHANGED <<execution_states, snapshot>>
    /\ UNCHANGED <<fee_map, config>>

\* reply: handle_reply for the reply id of the answered submessage
Handle(reply_id, msg, remaining, query_ok) ==
    IF reply_id \notin DOMAIN execution_states \/ reply_id \notin DOMAIN route_plans
    THEN /\ Fail("NotFound", reply_id)
         /\ UNCHANGED <<execution_states, route_plans>>
    ELSE \E out \in {dispatch_reply(execution_states[reply_id], route_plans[reply_id],
                                     msg, fee_map, config, query_ok)} :
             IF out.err # "none"
             THEN /\ Fail(out.err, reply_id)
                  /\ UNCHANGED <<execution_states, route_plans>>
             ELSE /\ Apply(out, reply_id, remaining)
                  /\ route_plans' = IF out.store = "remove"
                                    THEN Drop(route_plans, reply_id) ELSE route_plans
                  /\ reply_id_counter' = reply_id_counter
                  /\ Settle

\* the reported output of a swap call, for the record of the transaction
Reported(call, msg) ==
    IF call.kind = "swap" /\ msg.ok /\ msg.events # <<>>
    THEN <<[op |-> call.op[1],
            amount |-> msg.events[1].attrs[amount_key(msg.events[1])].n]>>
    ELSE <<>>

\* the host ran an outstanding call and delivers its reply
DeliverReply(i, msg, query_ok) ==
    /\ UNCHANGED planning
    /\ status = "running"
    /\ i \in 1..Len(pending)
    /\ msg \in Replies(pending[i].call)
    /\ outputs' = outputs \o Reported(pending[i].call, msg)
    /\ Handle(pending[i].id, msg, RemoveAt(pending, i), query_ok)
    /\ reply_id_counter' = reply_id_counter
    /\ UNCHANGED <<fee_map, config, tx_input, call_failed, tx_count>>

\* an outstanding call fails: with reply_on_success the error propagates and
\* the transaction fails; otherwise the error is delivered as a reply
CallFails(i, query_ok) ==
    /\ UNCHANGED planning
    /\ status = "running"
    /\ i \in 1..Len(pending)
    /\ call_failed' = TRUE
    /\ IF pending[i].call.reply_on = "success"
       THEN /\ Fail("SubmessageFailed", pending[i].id)
            /\ UNCHANGED <<execution_states, route_plans>>
       ELSE Handle(pending[i].id, ReplyErr, RemoveAt(pending, i), query_ok)
    /\ reply_id_counter' = reply_id_counter
    /\ UNCHANGED <<fee_map, config, tx_input, outputs, tx_count>>

\* the host discards every write and message of a failed transaction
Rollback ==
    /\ UNCHANGED planning
    /\ status = "failed"
    /\ reply_id_counter' = snapshot.counter
    /\ route_plans' = snapshot.plans
    /\ execution_states' = snapshot.states
    /\ pending' = <<>>
    /\ transfers' = <<>>
    /\ status' = "done"
    /\ result' = "aborted"
    /\ UNCHANGED <<fee_map, config, snapshot, tx_input, last, outputs, call_failed,
                   tx_count>>

\* the host returns the response of the finished transaction to its caller
Return ==
    /\ UNCHANGED planning
    /\ status = "done"
    /\ status' = "idle"
    /\ result' = "none"
    /\ transfers' = <<>>
    /\ tx_input' = NoInput
    /\ last' = Last("none", "", -1, 0)
    /\ outputs' = <<>>
    /\ call_failed' = FALSE
    /\ UNCHANGED <<reply_id_counter, route_plans, execution_states, fee_map, config,
                   snapshot, pending, tx_count>>

\* whether set_fee accepts the rate (atomics of a Decimal below one)
fee_rate_valid(fee_percent) == fee_percent < DECIMAL_FRACTIONAL

SetFee(sender, pool_address, fee_percent) ==
    /\ UNCHANGED planning
    /\ status = "idle"
    /\ fee_map' = IF sender = config.admin /\ fee_rate_valid(fee_percent)
                  THEN [fee_map EXCEPT ![pool_address] = <<fee_percent>>]
                  ELSE fee_map
    /\ UNCHANGED <<reply_id_counter, route_plans, execution_states, config, status,
                   snapshot, pending, transfers, tx_input, last, outputs,
                   call_failed, result, tx_count>>

RemoveFee(sender, pool_address) ==
    /\ UNCHANGED planning
    /\ status = "idle"
    /\ fee_map' = IF sender = config.admin
                  THEN [fee_map EXCEPT ![pool_address] = <<>>]
                  ELSE fee_map
    /\ UNCHANGED <<reply_id_counter, route_plans, execution_states, config, status,
                   snapshot, pending, transfers, tx_input, last, outputs,
                   call_failed, result, tx_count>>

UpdateFeeCollector(sender, new_fee_collector) ==
    /\ UNCHANGED planning
    /\ status = "idle"
    /\ config' = IF sender = config.admin
                 THEN [config EXCEPT !.fee_collector = new_fee_collector]
                 ELSE config
    /\ UNCHANGED <<reply_id_counter, route_plans, execution_states, fee_map, status,
                   snapshot, pending, transfers, tx_input, last, outputs,
                   call_failed, result, tx_count>>

\* the builds that differ on the route: overflow checks matter only when the
\* percentages of the first stage do not fit a u8
Builds(stages) ==
    IF stages # <<>> /\ SumSeq(Percents(stages[1])) >= U8_MODULUS
    THEN BOOLEAN ELSE {TRUE}

\* the outcomes of the venue's query: it is made only for a book-style venue
has_orderbook(stages) ==
    \E s \in 1..Len(stages) : \E i \in 1..Len(stages[s]) :
        \E j \in 1..Len(stages[s][i].path) :
            stages[s][i].path[j].ty = "OrderbookSwap"

QueryOutcomes(stages) == IF has_orderbook(stages) THEN BOOLEAN ELSE {TRUE}

StagesOf(reply_id) ==
    IF reply_id \in DOMAIN route_plans THEN route_plans[reply_id].stages ELSE <<>>

Next ==
    \/ \E s \in Submissions :
          \E wrapping \in Builds(s.stages), q \in QueryOutcomes(s.stages) :
              Submit(s.stages, s.minimum_receive_str, s.offer_asset, USER,
                     wrapping, q)
    \/ \E i \in 1..Len(pending) :
          \E msg \in Replies(pending[i].call),
             q \in QueryOutcomes(StagesOf(pending[i].id)) : DeliverReply(i, msg, q)
    \/ \E i \in 1..Len(pending) :
          \E q \in QueryOutcomes(StagesOf(pending[i].id)) : CallFails(i, q)
    \/ Rollback
    \/ Return
    \/ \E sender \in Senders, pool \in FeeVenues, rate \in FeeRates :
          SetFee(sender, pool, rate)
    \/ \E sender \in Senders, pool \in FeeVenues : RemoveFee(sender, pool)
    \/ \E sender \in Senders, collector \in Collectors :
          UpdateFeeCollector(sender, collector)

Spec == Init /\ [][Next]_vars


(***************************************************************************)
(* The planner on its own: plan_next_stage and the dispatch of the swaps   *)
(* it plans, applied to every held pile and stage of a bounded catalog.    *)
(***************************************************************************)
\* largest amount of the native asset held when a stage is planned
MaxAmount == 9

AmmNative == AmmSwap("amm1", INJ, USDT)
AmmCw20 == AmmSwap("amm4", CW_INJ, USDT)
AmmCw20Other == AmmSwap("amm6", CW_USDT, INJ)
BookTick2 == OrderbookSwap("ob1", INJ, USDT, 2)

PlannerOps == {AmmNative, AmmCw20, AmmCw20Other, BookTick2}
PlannerPercents == {20, 30, 50, 100}
PlannerSplits == {Split(<<op>>, percent) : op \in PlannerOps, percent \in PlannerPercents}
SplitCounts == 0..3

PlannerStages ==
    UNION {[1..n -> PlannerSplits] : n \in SplitCounts}

PlannerHeld ==
    {<<Asset(INJ, a)>> : a \in 0..MaxAmount}
    \cup {<<Asset(CW_INJ, 3), Asset(INJ, a)>> : a \in 0..MaxAmount}

InitPlanner ==
    /\ InitExec
    /\ \E held \in PlannerHeld, stage \in PlannerStages :
          planning = [step |-> "held", held |-> held, stage |-> stage]

\* proceed_to_next_step's call of plan_next_stage
PlanStage ==
    /\ planning.step = "held"
    /\ planning' = [step |-> "planned", held |-> planning.held,
                    stage |-> planning.stage,
                    stage_plan |-> plan_next_stage(planning.held, planning.stage)]
    /\ UNCHANGED exec_vars

\* execute_planned_swaps' creation of the outbound swap calls
DispatchPlanned(query_ok) ==
    /\ planning.step = "planned"
    /\ planning.stage_plan.err = "none"
    /\ planning' = [step |-> "dispatched", held |-> planning.held,
                    stage |-> planning.stage,
                    stage_plan |-> planning.stage_plan,
                    query_ok |-> query_ok,
                    planned |-> planned_swap_msgs(
                                    planning.stage_plan.swaps_to_execute, query_ok)]
    /\ UNCHANGED exec_vars

NextPlanner ==
    \/ PlanStage
    \/ \E q \in BOOLEAN : DispatchPlanned(q)

SpecPlanner == InitPlanner /\ [][NextPlanner]_vars


(***************************************************************************)
(* One dispatch batch on its own: the swaps of stage 0 are dispatched, and *)
(* their replies, fixed per venue, are handled in two orders.              *)
(***************************************************************************)
AmmAtom == AmmSwap("amm2", INJ, ATOM)

BatchRoutes ==
    { << <<Split(<<Amm1>>, 33), Split(<<Amm2>>, 42), Split(<<Ob1(1)>>, 25)>> >>,
      << <<Split(<<Amm1>>, 50), Split(<<Amm5>>, 50)>> >>,
      << <<Split(<<Amm1>>, 50), Split(<<Amm2>>, 50)>>,
         <<Split(<<Amm3>>, 60), Split(<<Amm4>>, 40)>> >>,
      << <<Split(<<Amm1>>, 50), Split(<<AmmAtom>>, 50)>>, <<Split(<<Amm4>>, 100)>> >> }

BatchVenues(stages) ==
    {get_operation_address(stages[1][i].path[1]) : i \in 1..Len(stages[1])}

\* the rate each venue answers with: 0 for a swap that pays nothing (no event)
BatchRates(stages) == [BatchVenues(stages) -> 0..MaxRate]

BatchFees == {[v \in FeeVenues |-> <<>>], [v \in FeeVenues |-> <<50>>]}

\* the orders in which the host may deliver n replies
Orders(n) == {o \in [1..n -> 1..n] : \A i, j \in 1..n : o[i] = o[j] => i = j}

\* the reply to a call of a venue answering at the given rate
reply_at_rate(call, rate) ==
    IF rate = 0 THEN ReplyOk(<<>>)
    ELSE ReplyOk(<<SwapReplyEvent(call, call.amount * rate)>>)

\* what the transaction shows once the batch is through: the error, or the
\* messages and submessages of the responses (as sets: the order of the
\* messages within a response is not compared)
batch_result(err, out, fees) ==
    [err |-> err,
     payout |-> {out.msgs[i] : i \in {j \in 1..Len(out.msgs) : out.msgs[j].why = "payout"}},
     fees |-> {fees[i] : i \in 1..Len(fees)},
     submsgs |-> {out.submsgs[i] : i \in 1..Len(out.submsgs)},
     pending_swaps |-> IF out.store = "save" THEN out.es.pending_swaps ELSE <<>>]

\* handle_reply: the records of the id are loaded, and the handler of the phase
\* awaited is run; without them the callback fails
handle_reply(states, plans, reply_id, msg, fees_table, cfg, query_ok) ==
    IF reply_id \notin DOMAIN states \/ reply_id \notin DOMAIN plans
    THEN Failure("NotFound")
    ELSE dispatch_reply(states[reply_id], plans[reply_id], msg, fees_table, cfg,
                        query_ok)

\* a completion that clears both maps instead of removing its own id
records_after_clearing(states, plans, reply_id, out) ==
    [states |-> IF out.err # "none" THEN states
                ELSE IF out.store = "save" THEN Put(states, reply_id, out.es)
                ELSE IF out.store = "remove" THEN EmptyMap
                ELSE states,
     plans |-> IF out.err = "none" /\ out.store = "remove" THEN EmptyMap ELSE plans]

\* the records once the handler has returned: an error writes nothing
records_after(states, plans, reply_id, out) ==
    [states |-> IF out.err # "none" THEN states
                ELSE IF out.store = "save" THEN Put(states, reply_id, out.es)
                ELSE IF out.store = "remove" THEN Drop(states, reply_id)
                ELSE states,
     plans |-> IF out.err = "none" /\ out.store = "remove"
               THEN Drop(plans, reply_id) ELSE plans]

\* handle_reply applied to the replies of the calls of id 1, in the given
\* order: the last response, the fee messages so far and the records left
handled_in_order(exec_state, plan, calls, order, rates, fees_table, cfg) ==
    LET after[k \in 0..Len(order)] ==
            IF k = 0
            THEN [err |-> "none", out |-> Saved(exec_state, <<>>, ""), fees |-> <<>>,
                  states |-> (1 :> exec_state), plans |-> (1 :> plan)]
            ELSE Bind(after[k - 1], LAMBDA prev :
                   IF prev.err # "none" THEN prev
                   ELSE Bind(handle_reply(
                                 prev.states, prev.plans, 1,
                                 reply_at_rate(calls[order[k]],
                                               rates[calls[order[k]].addr]),
                                 fees_table, cfg, TRUE),
                             LAMBDA out :
                                 [err |-> out.err, out |-> out,
                                  fees |-> prev.fees
                                           \o SelectSeq(out.msgs,
                                                        LAMBDA m : m.why = "fee"),
                                  states |-> records_after(prev.states, prev.plans,
                                                           1, out).states,
                                  plans |-> records_after(prev.states, prev.plans,
                                                          1, out).plans]))
    IN  after[Len(order)]

deliver_in_order(exec_state, plan, calls, order, rates, fees_table, cfg) ==
    Bind(handled_in_order(exec_state, plan, calls, order, rates, fees_table, cfg),
         LAMBDA end : batch_result(end.err, end.out, end.fees))

InitBatch ==
    /\ InitExec
    /\ \E stages \in BatchRoutes, amount \in OfferAmounts, table \in BatchFees :
          \E rates \in BatchRates(stages) :
              planning = [step |-> "submitted", stages |-> stages, amount |-> amount,
                          fee_map |-> table, rates |-> rates]

\* execute: the submission dispatches the swaps of stage 0
DispatchBatch ==
    /\ planning.step = "submitted"
    /\ \E r \in {execute_aggregate_swaps_internal(
                    0, planning.stages, <<>>, Asset(INJ, planning.amount), USER,
                    TRUE, TRUE)} :
          /\ r.err = "none"
          /\ r.out.store = "save"
          /\ planning' = [step |-> "dispatched", stages |-> planning.stages,
                          amount |-> planning.amount, fee_map |-> planning.fee_map,
                          rates |-> planning.rates, plan |-> r.plan,
                          exec_state |-> r.out.es, calls |-> r.out.submsgs]
    /\ UNCHANGED exec_vars

\* reply: the replies of the batch, delivered in one order and in another
DeliverBatch(first, second) ==
    /\ planning.step = "dispatched"
    /\ planning' =
           [step |-> "delivered", stages |-> planning.stages,
            amount |-> planning.amount, fee_map |-> planning.fee_map,
            rates |-> planning.rates, calls |-> planning.calls,
            first_order |-> first, second_order |-> second,
            first |-> deliver_in_order(planning.exec_state, planning.plan,
                                       planning.calls, first, planning.rates,
                                       planning.fee_map, config),
            second |-> deliver_in_order(planning.exec_state, planning.plan,
                                        planning.calls, second, planning.rates,
                                        planning.fee_map, config)]
    /\ UNCHANGED exec_vars

\* the orders of the replies of the dispatched batch
BatchOrders ==
    IF planning.step = "dispatched" THEN Orders(Len(planning.calls)) ELSE {}

NextBatch ==
    \/ DispatchBatch
    \/ \E first, second \in BatchOrders : DeliverBatch(first, second)

SpecBatch == InitBatch /\ [][NextBatch]_vars


(***************************************************************************)
(* A callback delivered again: the batch of stage 0 is answered in full,   *)
(* the transition fires, and the reply of one of its calls is handed to    *)
(* handle_reply once more for the same id.                                 *)
(***************************************************************************)
StaleRoutes ==
    { << <<Split(<<Amm1>>, 100)>> >>,
      << <<Split(<<Amm1>>, 50), Split(<<Amm5>>, 50)>> >>,
      << <<Split(<<Amm1>>, 50), Split(<<Amm2>>, 50)>>, <<Split(<<Amm3>>, 100)>> >>,
      << <<Split(<<Amm1>>, 100)>>, <<Split(<<Amm3>>, 60), Split(<<Amm4>>, 40)>> >> }

InitStale ==
    /\ InitExec
    /\ \E stages \in StaleRoutes, amount \in OfferAmounts, table \in BatchFees :
          \E rates \in [BatchVenues(stages) -> 1..MaxRate] :
              planning = [step |-> "submitted", stages |-> stages, amount |-> amount,
                          fee_map |-> table, rates |-> rates]

\* reply: every call of the batch is answered, in the order of dispatch
FinishBatch ==
    /\ planning.step = "dispatched"
    /\ \E end \in {handled_in_order(
                      planning.exec_state, planning.plan, planning.calls,
                      [i \in 1..Len(planning.calls) |-> i], planning.rates,
                      planning.fee_map, config)} :
          /\ end.err = "none"
          /\ planning' = [step |-> "finished", stages |-> planning.stages,
                          amount |-> planning.amount, fee_map |-> planning.fee_map,
                          rates |-> planning.rates, calls |-> planning.calls,
                          states |-> end.states, plans |-> end.plans]
    /\ UNCHANGED exec_vars

\* reply: the reply of call i of the finished batch arrives again
Redeliver(i) ==
    /\ planning.step = "finished"
    /\ \E out \in {handle_reply(
                      planning.states, planning.plans, 1,
                      reply_at_rate(planning.calls[i],
                                    planning.rates[planning.calls[i].addr]),
                      planning.fee_map, config, TRUE)} :
          planning' = [step |-> "redelivered", stages |-> planning.stages,
                       amount |-> planning.amount, fee_map |-> planning.fee_map,
                       rates |-> planning.rates, calls |-> planning.calls,
                       states |-> planning.states, plans |-> planning.plans,
                       stale |-> i, out |-> out,
                       after |-> records_after(planning.states, planning.plans,
                                               1, out)]
    /\ UNCHANGED exec_vars

FinishedCalls ==
    IF planning.step = "finished" THEN 1..Len(planning.calls) ELSE {}

NextStale ==
    \/ DispatchBatch
    \/ FinishBatch
    \/ \E i \in FinishedCalls : Redeliver(i)

SpecStale == InitStale /\ [][NextStale]_vars


(***************************************************************************)
(* Two executions in flight: while a call of execution 1 runs, the venue   *)
(* called submits a route of its own, which becomes execution 2 and runs   *)
(* to its end before the call returns.                                     *)
(***************************************************************************)
InitFrame ==
    /\ InitExec
    /\ \E stages \in StaleRoutes, amount \in OfferAmounts :
          planning = [step |-> "submitted", stages |-> stages, amount |-> amount]

\* execute: the submission from the user
SubmitOuter ==
    /\ planning.step = "submitted"
    /\ \E r \in {execute_aggregate_swaps_internal(
                    0, planning.stages, <<>>, Asset(INJ, planning.amount), USER,
                    TRUE, TRUE)} :
          /\ r.err = "none"
          /\ r.out.store = "save"
          /\ planning' = [step |-> "running", counter |-> r.reply_id,
                          states |-> (r.reply_id :> r.out.es),
                          plans |-> (r.reply_id :> r.plan),
                          calls |-> (r.reply_id :> r.out.submsgs),
                          handled |-> [id |-> r.reply_id, reply |-> <<>>,
                                       out |-> r.out]]
    /\ UNCHANGED exec_vars

\* execute: the submission from a venue that execution 1 has called
SubmitInner(stages, amount) ==
    /\ planning.step = "running"
    /\ planning.counter = 1
    /\ planning.calls[1] # <<>>
    /\ \E r \in {execute_aggregate_swaps_internal(
                    planning.counter, stages, <<>>, Asset(INJ, amount),
                    planning.calls[1][1].addr, TRUE, TRUE)} :
          /\ r.err = "none"
          /\ r.out.store = "save"
          /\ planning' = [step |-> "running", counter |-> r.reply_id,
                          states |-> Put(planning.states, r.reply_id, r.out.es),
                          plans |-> Put(planning.plans, r.reply_id, r.plan),
                          calls |-> Put(planning.calls, r.reply_id, r.out.submsgs),
                          handled |-> [id |-> r.reply_id, reply |-> <<>>,
                                       out |-> r.out]]
    /\ UNCHANGED exec_vars

\* reply: a call of the execution is answered; the calls of execution 1 wait
\* while execution 2 has calls outstanding
ReplyFrame(reply_id) ==
    /\ planning.step = "running"
    /\ reply_id \in DOMAIN planning.calls
    /\ reply_id = 1 => \A id \in DOMAIN planning.calls \ {1} : planning.calls[id] = <<>>
    /\ \E i \in 1..Len(planning.calls[reply_id]) :
          \E msg \in Replies(planning.calls[reply_id][i]) :
             \E out \in {handle_reply(planning.states, planning.plans, reply_id, msg,
                                      fee_map, config, TRUE)} :
                \E after \in {records_after(planning.states, planning.plans,
                                            reply_id, out)} :
                   planning' =
                       [step |-> IF out.err = "none" THEN "running" ELSE "failed",
                        counter |-> planning.counter,
                        states |-> after.states, plans |-> after.plans,
                        calls |-> [planning.calls EXCEPT ![reply_id] =
                                      IF out.err = "none"
                                      THEN RemoveAt(@, i) \o out.submsgs ELSE @],
                        handled |-> [id |-> reply_id, reply |-> <<msg>>, out |-> out]]
    /\ UNCHANGED exec_vars

NextFrame ==
    \/ SubmitOuter
    \/ \E stages \in StaleRoutes, amount \in OfferAmounts : SubmitInner(stages, amount)
    \/ \E reply_id \in 1..2 : ReplyFrame(reply_id)

SpecFrame == InitFrame /\ [][NextFrame]_vars


(***************************************************************************)
(* One execution under every shape of reply: a venue may report its        *)
(* output, report an output of zero, report nothing, report an amount that *)
(* does not parse, or report under an address the stage does not name; a   *)
(* call may fail.  Venues pay one for one, so the amounts stay bounded     *)
(* even on a route that never ends.                                        *)
(***************************************************************************)
AmmAtomAtAmm1 == AmmSwap("amm1", INJ, ATOM)

ReplyRoutes ==
    { << <<Split(<<Amm1>>, 100)>> >>,
      << <<Split(<<Amm1, Amm3>>, 100)>> >>,
      << <<Split(<<Amm1, Amm3, Amm1>>, 100)>> >>,
      << <<Split(<<Amm1>>, 50), Split(<<AmmAtomAtAmm1>>, 50)>> >>,
      << <<Split(<<Amm1>>, 50), Split(<<Amm5>>, 50)>> >>,
      << <<Split(<<Amm1, Amm4>>, 100)>> >>,
      << <<Split(<<Amm1>>, 100)>>, <<Split(<<Amm3>>, 60), Split(<<Amm4>>, 40)>> >>,
      << <<Split(<<Amm1>>, 100)>>,
         <<Split(<<Amm3>>, 10), Split(<<Amm4>>, 40), Split(<<Amm3>>, 50)>> >>,
      << <<Split(<<Amm1, Amm4>>, 50), Split(<<Amm2>>, 50)>> >> }

\* the events a venue's reply may carry for a swap call
VenueEvents(call) ==
    { <<>>,
      <<SwapReplyEvent(call, call.amount)>>,
      <<SwapReplyEvent(call, 0)>>,
      <<Event("wasm", ("_contract_address" :> call.addr) @@ ("action" :> "swap"))>>,
      <<Event("wasm", ("_contract_address" :> call.addr)
                      @@ ("return_amount" :> Malformed))>>,
      <<Event("wasm", ("_contract_address" :> "elsewhere")
                      @@ ("return_amount" :> Num(call.amount)))>>,
      <<Event("wasm", ("_contract_address" :> "inner_pool")
                      @@ ("return_amount" :> Num(2))),
        SwapReplyEvent(call, call.amount)>> }

VenueReplies(call) ==
    CASE call.kind = "swap" -> {ReplyOk(events) : events \in VenueEvents(call)}
      [] call.kind = "convert" ->
             {ReplyOk(<<ConversionReplyEvent(call)>>), ReplyOk(<<>>),
              ReplyOk(<<Event("transfer", ("recipient" :> "elsewhere")
                                          @@ ("amount" :> Num(call.amount)))>>),
              ReplyOk(<<Event("wasm", ("action" :> "transfer") @@ ("to" :> "elsewhere")
                                      @@ ("amount" :> Num(call.amount)))>>)}
      [] OTHER -> {}

InitReplies ==
    /\ InitExec
    /\ \E stages \in ReplyRoutes, amount \in OfferAmounts :
          planning = [step |-> "submitted", stages |-> stages, amount |-> amount]

\* reply: a call of the execution is answered
ReplyVenue ==
    /\ planning.step = "running"
    /\ \E i \in 1..Len(planning.calls[1]) :
          \E msg \in VenueReplies(planning.calls[1][i]) :
             \E out \in {handle_reply(planning.states, planning.plans, 1, msg,
                                      fee_map, config, TRUE)} :
                \E after \in {records_after(planning.states, planning.plans, 1, out)} :
                   planning' =
                       [step |-> IF out.err = "none" THEN "running" ELSE "failed",
                        counter |-> planning.counter,
                        states |-> after.states, plans |-> after.plans,
                        calls |-> (1 :> IF out.err = "none"
                                        THEN RemoveAt(planning.calls[1], i)
                                             \o out.submsgs
                                        ELSE planning.calls[1]),
                        handled |-> [id |-> 1, reply |-> <<msg>>, out |-> out,
                                     call |-> planning.calls[1][i]]]
    /\ UNCHANGED exec_vars

\* a call fails: every submessage is reply_on_success, so the execution aborts
CallAborts ==
    /\ planning.step = "running"
    /\ planning.calls[1] # <<>>
    /\ planning' = [planning EXCEPT
                       !.step = "failed",
                       !.handled = [id |-> 1, reply |-> <<>>,
                                    out |-> Failure("SubmessageFailed")]]
    /\ UNCHANGED exec_vars

NextReplies ==
    \/ SubmitOuter
    \/ ReplyVenue
    \/ CallAborts

SpecReplies == InitReplies /\ [][NextReplies]_vars

\* every outstanding call is eventually answered or fails
SpecLive == SpecReplies /\ WF_vars(ReplyVenue \/ CallAborts)


(***************************************************************************)
(* The settlement on its own: handle_final_stage applied to what the last  *)
(* stage may leave accumulated (nothing, one asset, several in one or in   *)
(* two representations, amounts of zero), then the replies of the          *)
(* conversions it issued.                                                  *)
(***************************************************************************)
SettleHeld ==
    UNION {[1..n -> {Asset(info, a) : info \in {USDT, CW_USDT}, a \in {0, 3, 4}}]
           : n \in 0..3}

InitSettle ==
    /\ InitExec
    /\ \E held \in SettleHeld, minimum \in {0, 5, 10} :
          planning = [step |-> "accumulated", held |-> held, minimum |-> minimum,
                      states |-> (1 :> ExecutionState("Swaps", 1, 0, held, <<>>, <<>>)),
                      plans |-> (1 :> RoutePlan(USER, minimum, SimpleRoute))]

\* proceed_to_next_step past the last stage: handle_final_stage
StartSettlement ==
    /\ planning.step = "accumulated"
    /\ \E out \in {handle_final_stage(planning.states[1], planning.plans[1])} :
          \E after \in {records_after(planning.states, planning.plans, 1, out)} :
             planning' = [step |-> IF out.err # "none" THEN "failed"
                                   ELSE IF out.store = "remove" THEN "settled"
                                   ELSE "settling",
                          held |-> planning.held, minimum |-> planning.minimum,
                          states |-> after.states, plans |-> after.plans,
                          calls |-> out.submsgs, issued |-> out.submsgs,
                          reported |-> 0, out |-> out]
    /\ UNCHANGED exec_vars

\* reply: the adapter answers a conversion of the settlement, reporting the
\* amount of the call or one more
FinalConverted(extra) ==
    /\ planning.step = "settling"
    /\ \E i \in 1..Len(planning.calls) :
          \E msg \in {ReplyOk(<<ConversionReplyEvent(
                                  [planning.calls[i] EXCEPT !.amount = @ + extra])>>)} :
             \E out \in {handle_reply(planning.states, planning.plans, 1, msg,
                                      fee_map, config, TRUE)} :
                \E after \in {records_after(planning.states, planning.plans, 1, out)} :
                   planning' = [step |-> IF out.err # "none" THEN "failed"
                                         ELSE IF out.store = "remove" THEN "settled"
                                         ELSE "settling",
                                held |-> planning.held, minimum |-> planning.minimum,
                                states |-> after.states, plans |-> after.plans,
                                calls |-> RemoveAt(planning.calls, i) \o out.submsgs,
                                issued |-> planning.issued,
                                reported |-> planning.reported
                                             + planning.calls[i].amount + extra,
                                out |-> out]
    /\ UNCHANGED exec_vars

NextSettle ==
    \/ StartSettlement
    \/ \E extra \in 0..1 : FinalConverted(extra)

SpecSettle == InitSettle /\ [][NextSettle]_vars


(***************************************************************************)
(* Properties.  What a property reads of the transaction in progress.      *)
(***************************************************************************)
\* the minimum_receive submitted (0 when none)
TxMinimum ==
    IF tx_input.minimum_receive_str = <<>> THEN 0
    ELSE tx_input.minimum_receive_str[1].n

IsPayout(m) == m.why = "payout"
IsFee(m) == m.why = "fee"
Payouts == SelectSeq(transfers, IsPayout)
TransferAmounts(msgs) == [i \in 1..Len(msgs) |-> msgs[i].amount]
PayoutTotal == SumSeq(TransferAmounts(Payouts))

\* the id the submission in progress was given, or would have been given
TxId == IF tx_input.reply_id # 0 THEN tx_input.reply_id ELSE snapshot.counter + 1
HasRecord(id) == id \in DOMAIN route_plans \/ id \in DOMAIN execution_states

(***************************************************************************)
(* C1.  A transfer of proceeds to the initiator is never issued for a      *)
(* total below the plan's minimum_receive: every payout carries at least   *)
(* the minimum, a completion reports a final_received of at least the      *)
(* minimum, and a step that fails with MinimumReceiveNotMet leaves no      *)
(* payout among the messages of the transaction, with and without final    *)
(* conversions.                                                            *)
(***************************************************************************)
C1_MinimumReceiveRespected ==
    /\ \A i \in 1..Len(transfers) :
          IsPayout(transfers[i]) => transfers[i].amount >= TxMinimum
    /\ last.action = "aggregate_swap_complete" => last.final_received >= TxMinimum
    /\ last.action = "aggregate_swap_complete_empty" => TxMinimum = 0
    /\ last.err = "MinimumReceiveNotMet" => Payouts = <<>>

\* the last final-conversion callback settles a total below the minimum
C1_Witness ==
    /\ status = "failed"
    /\ last.err = "MinimumReceiveNotMet"
    /\ TxId \in DOMAIN execution_states
    /\ execution_states[TxId].awaiting = "FinalConversions"
    /\ outputs # <<>>

(***************************************************************************)
(* C2.  When submit or a callback handler returned an error, or an         *)
(* outbound call failed, the transaction ends rolled back: it is not       *)
(* committed, the storage is what it was before the submission (no plan    *)
(* and no state for the id, the counter at its earlier value) and no       *)
(* transfer of the transaction remains.                                    *)
(***************************************************************************)
C2_FailureRollsBack ==
    (status = "done" /\ (last.err # "none" \/ call_failed)) =>
        /\ result = "aborted"
        /\ Storage = snapshot
        /\ ~HasRecord(TxId)
        /\ reply_id_counter = snapshot.counter
        /\ transfers = <<>>

\* a call fails after another venue of the transaction had already paid out
C2_Witness ==
    /\ status = "done"
    /\ result = "aborted"
    /\ call_failed
    /\ outputs # <<>>

(***************************************************************************)
(* C3.  For a committed single-stage route whose splits all end in the     *)
(* same asset, the amount transferred to the initiator is the sum, over    *)
(* the final operations dispatched, of the output the venue reported       *)
(* minus the fee of that venue, and a reported final_received is that sum. *)
(***************************************************************************)
LastOp(split) == split.path[Len(split.path)]

SameOutputSingleStage(stages) ==
    /\ Len(stages) = 1
    /\ stages[1] # <<>>
    /\ \A i \in 1..Len(stages[1]) : stages[1][i].path # <<>>
    /\ \A i, j \in 1..Len(stages[1]) :
          LastOp(stages[1][i]).ask_asset_info = LastOp(stages[1][j]).ask_asset_info

IsFinalOp(stages, op) == \E i \in 1..Len(stages[1]) : LastOp(stages[1][i]) = op

VenueRate(addr) ==
    IF addr \in DOMAIN fee_map /\ fee_map[addr] # <<>> THEN fee_map[addr][1] ELSE 0

NetOutput(o) == o.amount - ((o.amount * VenueRate(o.op.addr)) \div DECIMAL_FRACTIONAL)

ExpectedProceeds ==
    SumSeq([i \in 1..Len(outputs) |->
              IF IsFinalOp(tx_input.stages, outputs[i].op)
              THEN NetOutput(outputs[i]) ELSE 0])

C4_SinglePayoutWithDeletion ==
    /\ Len(Payouts) <= 1
    /\ Payouts # <<>> => ~HasRecord(TxId)

\* a committed execution that paid the initiator after several callbacks
C4_Witness ==
    /\ status = "done"
    /\ result = "committed"
    /\ Len(Payouts) = 1
    /\ Len(outputs) >= 2


(***************************************************************************)
(* What a property reads of a planner run.                                 *)
(***************************************************************************)
HeldTotal == SumSeq(Amounts(planning.held))
PlannedPercentSum == SumSeq(Percents(planning.stage))
FloorShare(i) == (HeldTotal * planning.stage[i].percent) \div 100
EarlierShares ==
    SumSeq([i \in 1..(Len(planning.stage) - 1) |-> FloorShare(i)])
CallAmounts(calls) == [i \in 1..Len(calls) |-> calls[i].amount]

(***************************************************************************)
(* C5.  For a stage whose percentages sum to 100, the amounts sent with    *)
(* the stage's outbound swap calls add up to the stage's total input, for  *)
(* pool-style and book-style operations alike.                             *)
(***************************************************************************)
C5_NoDustLeftBehind ==
    (planning.step = "dispatched" /\ planning.planned.err = "none"
       /\ PlannedPercentSum = 100) =>
        SumSeq(CallAmounts(planning.planned.submessages)) = HeldTotal

(***************************************************************************)
(* C6.  plan_next_stage gives every split but the last                     *)
(* floor(T * percent / 100) of the total T held, and the last split T      *)
(* minus the earlier allocations; when the earlier allocations exceed T    *)
(* it fails with an error.                                                 *)
(***************************************************************************)
C6_RemainderToLast ==
    planning.step \in {"planned", "dispatched"} =>
        LET n == Len(planning.stage)
            stage_plan == planning.stage_plan
        IN  /\ (n >= 1 /\ EarlierShares > HeldTotal) => stage_plan.err # "none"
            /\ (n = 0 \/ EarlierShares <= HeldTotal) =>
                  /\ stage_plan.err = "none"
                  /\ Len(stage_plan.swaps_to_execute) = n
                  /\ \A i \in 1..n :
                        /\ stage_plan.swaps_to_execute[i].operation
                               = planning.stage[i].path[1]
                        /\ stage_plan.swaps_to_execute[i].amount =
                               IF i < n THEN FloorShare(i)
                               ELSE HeldTotal - EarlierShares

\* three splits planned, the last taking a remainder that is not its share
C6_Witness ==
    /\ planning.step = "planned"
    /\ planning.stage_plan.err = "none"
    /\ Len(planning.stage) = 3
    /\ PlannedPercentSum = 100
    /\ planning.stage_plan.swaps_to_execute[3].amount # FloorShare(3)

(***************************************************************************)
(* C7.  A submission with a nonzero amount and a non-empty stage list is   *)
(* rejected with InvalidPercentageSum exactly when the percentages of its  *)
(* first stage do not sum to 100, whatever their true sum; the later       *)
(* stages are not checked.                                                 *)
(***************************************************************************)
C7_BadSumRejected ==
    (status # "idle" /\ tx_input.offer_asset.amount # 0 /\ tx_input.stages # <<>>) =>
        (SumSeq(Percents(tx_input.stages[1])) # 100
            <=> last.err = "InvalidPercentageSum")

(***************************************************************************)
(* C8.  A submission with amount 0 fails with ZeroAmount whatever the      *)
(* route, one with a nonzero amount and no stage fails with NoStages, and  *)
(* when it fails no id has been allocated and nothing has been written.    *)
(***************************************************************************)
NothingWritten ==
    /\ tx_input.reply_id = 0
    /\ Storage = snapshot
    /\ pending = <<>>
    /\ transfers = <<>>

C8_RejectedBeforeAllocation ==
    status # "idle" =>
        /\ tx_input.offer_asset.amount = 0 =>
              (last.err = "ZeroAmount" /\ NothingWritten)
        /\ (tx_input.offer_asset.amount # 0 /\ tx_input.stages = <<>>) =>
              (last.err = "NoStages" /\ NothingWritten)

\* a zero amount submitted with no stage: ZeroAmount comes first
C8_Witness ==
    /\ status = "failed"
    /\ tx_input.offer_asset.amount = 0
    /\ tx_input.stages = <<>>
    /\ last.err = "ZeroAmount"

(***************************************************************************)
(* C9.  An accepted submission gets the id (stored counter) + 1 and stores *)
(* it as the counter; every record is keyed by an id the counter has       *)
(* reached; the committed counter never decreases and grows with every     *)
(* committed submission, so no id is given twice.                          *)
(***************************************************************************)
C9_IdAllocated ==
    /\ \A id \in DOMAIN route_plans \cup DOMAIN execution_states :
          id >= 1 /\ id <= reply_id_counter
    /\ status = "running" =>
          (tx_input.reply_id = snapshot.counter + 1
             /\ reply_id_counter = tx_input.reply_id)
    /\ (status = "done" /\ result = "committed") =>
          (snapshot.counter = tx_input.reply_id /\ reply_id_counter = tx_input.reply_id)

C9_CounterGrows ==
    /\ snapshot'.counter >= snapshot.counter
    /\ (result' = "committed" /\ result # "committed") =>
          snapshot'.counter > snapshot.counter

C9_IdsStrictlyIncrease == []C9_IdAllocated /\ [][C9_CounterGrows]_vars

\* the second committed submission
C9_Witness ==
    /\ status = "done"
    /\ result = "committed"
    /\ tx_input.reply_id = 2

(***************************************************************************)
(* C10.  A split whose allocation is zero issues no call, the other splits *)
(* are dispatched, replies_expected is the number of calls issued, and the *)
(* stage is left only by the callback that is the last one outstanding.    *)
(***************************************************************************)
OfferShare(i) ==
    (tx_input.offer_asset.amount * tx_input.stages[1][i].percent) \div 100

OfferAllocation(i) ==
    IF i < Len(tx_input.stages[1]) THEN OfferShare(i)
    ELSE tx_input.offer_asset.amount
         - SumSeq([k \in 1..(Len(tx_input.stages[1]) - 1) |-> OfferShare(k)])

NonZeroSplits == {i \in 1..Len(tx_input.stages[1]) : OfferAllocation(i) # 0}

AwaitingSwaps ==
    /\ status = "running"
    /\ TxId \in DOMAIN execution_states
    /\ execution_states[TxId].awaiting = "Swaps"

StageZeroDispatched ==
    /\ AwaitingSwaps
    /\ last.action = "executing_planned_swaps"
    /\ execution_states[TxId].current_stage_index = 0

C10_CallsCounted ==
    /\ AwaitingSwaps =>
          /\ execution_states[TxId].replies_expected = Len(pending)
          /\ \A j \in 1..Len(pending) :
                pending[j].call.kind = "swap" => pending[j].call.amount # 0
    /\ StageZeroDispatched => Len(pending) = Cardinality(NonZeroSplits)

C10_LeftByLastCallback ==
    (AwaitingSwaps /\ (~AwaitingSwaps'
                        \/ execution_states'[TxId].current_stage_index
                               # execution_states[TxId].current_stage_index)
       /\ status' # "failed")
        => Len(pending) = 1

C10_ZeroSplitSkipped == []C10_CallsCounted /\ [][C10_LeftByLastCallback]_vars

\* a stage dispatched with fewer calls than splits
C10_Witness ==
    /\ StageZeroDispatched
    /\ Len(pending) >= 1
    /\ Len(pending) < Len(tx_input.stages[1])

(***************************************************************************)
(* What a property reads of one step: the swap answered in it and the      *)
(* transfers its response added.                                           *)
(***************************************************************************)
\* a venue's reply carrying a swap event was handled, and the handler returned Ok
SwapAnswered == Len(outputs') = Len(outputs) + 1 /\ status' # "failed"
AnsweredSwap == outputs'[Len(outputs')]
NewTransfers ==
    IF Len(transfers') >= Len(transfers)
    THEN SubSeq(transfers', Len(transfers) + 1, Len(transfers')) ELSE <<>>
NewFees == SelectSeq(NewTransfers, IsFee)
FeeCharged == SumSeq(TransferAmounts(NewFees))
\* floor(gross * rate), with the rate of the venue that answered
GrossFee(o) == (o.amount * VenueRate(o.op.addr)) \div DECIMAL_FRACTIONAL
\* the asset the handler pushed onto accumulated_assets, when the step shows it
PushedAsset ==
    LET id == last'.reply_id
    IN  IF /\ id \in DOMAIN execution_states /\ id \in DOMAIN execution_states'
           /\ Len(execution_states'[id].accumulated_assets)
                 = Len(execution_states[id].accumulated_assets) + 1
        THEN <<execution_states'[id].accumulated_assets[
                   Len(execution_states'[id].accumulated_assets)]>>
        ELSE <<>>

(***************************************************************************)
(* C11.  For every swap a venue completed, the fee charged is              *)
(* floor(gross * rate) with the rate of that venue in the fee table (0     *)
(* when absent), and the amount accumulated is gross minus that fee.       *)
(***************************************************************************)
C11_FeeIsFloorOfGross ==
    [][SwapAnswered =>
          /\ FeeCharged = GrossFee(AnsweredSwap)
          /\ PushedAsset # <<>> =>
                PushedAsset[1].amount + FeeCharged = AnsweredSwap.amount]_vars

(***************************************************************************)
(* C12.  A step adds a transfer to the fee collector only when it handled  *)
(* a completed swap whose fee is above 0, and then exactly one: of the fee *)
(* amount, in the output asset of the swap, to the collector configured    *)
(* when the reply is handled; and a swap reply that ends a split's path    *)
(* with a fee above 0 adds that transfer.                                  *)
(***************************************************************************)
\* the operation is the last of every path of the route it occurs in
EndsItsPath(stages, op) ==
    \A s \in 1..Len(stages) : \A i \in 1..Len(stages[s]) :
        \A j \in 1..Len(stages[s][i].path) :
            stages[s][i].path[j] = op => j = Len(stages[s][i].path)

FeeBearingSwaps == {i \in 1..Len(outputs) : GrossFee(outputs[i]) > 0}

C13_FeeOncePerSwap ==
    (status = "running" \/ (status = "done" /\ result = "committed")) =>
        Len(SelectSeq(transfers, IsFee)) = Cardinality(FeeBearingSwaps)

(***************************************************************************)
(* What a property reads of a stage plan: per representation kind, the     *)
(* amount held, the amount planned for the splits taking that kind, and    *)
(* the conversions out of it.                                              *)
(***************************************************************************)
Planned == planning.step \in {"planned", "dispatched"} /\ planning.stage_plan.err = "none"
Kinds == BOOLEAN
TakesKind(i, native) == IsNative(get_operation_input(planning.stage[i].path[1])) = native
HeldOfKind(native) ==
    SumSeq([i \in 1..Len(planning.held) |->
              IF IsNative(planning.held[i].info) = native
              THEN planning.held[i].amount ELSE 0])
PlannedOfKind(native) ==
    SumSeq([i \in 1..Len(planning.stage) |->
              IF TakesKind(i, native)
              THEN planning.stage_plan.swaps_to_execute[i].amount ELSE 0])
FromKind(c, native) == IsNative(c.asset.info) = native
ConversionsOutOf(native) ==
    SelectSeq(planning.stage_plan.conversions_needed, LAMBDA c : FromKind(c, native))
ConvertedOutOf(native) ==
    SumSeq([i \in 1..Len(ConversionsOutOf(native)) |->
              ConversionsOutOf(native)[i].asset.amount])
StageTakes(native) == \E i \in 1..Len(planning.stage) : TakesKind(i, native)

(***************************************************************************)
(* C14.  For a stage whose percentages sum to 100, plan_next_stage emits   *)
(* no conversion out of a kind of which no more is held than the stage's   *)
(* splits of that kind are planned to take.                                *)
(***************************************************************************)
C14_NoNeedlessConversion ==
    (Planned /\ PlannedPercentSum = 100) =>
        \A native \in Kinds :
            HeldOfKind(native) <= PlannedOfKind(native) =>
                ConversionsOutOf(native) = <<>>

(***************************************************************************)
(* C15.  For a stage whose percentages sum to 100: when more of a kind is  *)
(* held than the stage's splits of that kind are planned to take, and the  *)
(* stage has a split of the other kind, exactly one conversion out of that *)
(* kind is emitted, of held minus planned.                                 *)
(***************************************************************************)
C15_SurplusConvertedOnce ==
    (Planned /\ PlannedPercentSum = 100) =>
        \A native \in Kinds :
            (HeldOfKind(native) > PlannedOfKind(native) /\ StageTakes(~native)) =>
                /\ Len(ConversionsOutOf(native)) = 1
                /\ ConvertedOutOf(native) = HeldOfKind(native) - PlannedOfKind(native)

(***************************************************************************)
(* C16.  For a stage whose percentages sum to 100, what is held of each    *)
(* kind once the emitted conversions are done one to one is at least what  *)
(* the stage's splits of that kind are planned to take.                    *)
(***************************************************************************)
HeldAfterConversions(native) ==
    HeldOfKind(native) - ConvertedOutOf(native) + ConvertedOutOf(~native)

C16_NeedsCoverPlannedSwaps ==
    (Planned /\ PlannedPercentSum = 100) =>
        \A native \in Kinds : HeldAfterConversions(native) >= PlannedOfKind(native)

(***************************************************************************)
(* C17.  When nothing is held of a kind the stage takes and the other kind *)
(* is held in surplus, one conversion of the surplus is emitted, and every *)
(* conversion names as target the offer asset of the first split of the    *)
(* stage that takes the kind converted into.                               *)
(***************************************************************************)
FloorNeedOfKind(native) ==
    SumSeq([i \in 1..Len(planning.stage) |->
              IF TakesKind(i, native) THEN FloorShare(i) ELSE 0])
FirstSplitTaking(native) ==
    CHOOSE i \in 1..Len(planning.stage) :
        /\ TakesKind(i, native)
        /\ \A j \in 1..(i - 1) : ~TakesKind(j, native)
DeclaredOffer(native) ==
    get_operation_input(planning.stage[FirstSplitTaking(native)].path[1])
InSurplus(native) ==
    /\ HeldOfKind(native) > PlannedOfKind(native)
    /\ HeldOfKind(native) > FloorNeedOfKind(native)

C17_TargetFromNextStage ==
    Planned =>
        \A native \in Kinds :
            /\ \A i \in 1..Len(ConversionsOutOf(native)) :
                  /\ StageTakes(~native)
                  /\ ConversionsOutOf(native)[i].target = DeclaredOffer(~native)
            /\ (HeldOfKind(~native) = 0 /\ StageTakes(~native) /\ InSurplus(native)) =>
                  /\ Len(ConversionsOutOf(native)) = 1
                  /\ ConvertedOutOf(native) > 0

\* only native held, two splits taking different cw20 tokens: the target is the
\* token of the first of them
C17_Witness ==
    /\ Planned
    /\ HeldOfKind(FALSE) = 0
    /\ Len(planning.stage) >= 2
    /\ TakesKind(1, FALSE) /\ TakesKind(2, FALSE)
    /\ get_operation_input(planning.stage[1].path[1])
          # get_operation_input(planning.stage[2].path[1])
    /\ Len(ConversionsOutOf(TRUE)) = 1
    /\ ConversionsOutOf(TRUE)[1].target = get_operation_input(planning.stage[1].path[1])

(***************************************************************************)
(* C18.  For a fixed route, input and result of every call, the replies of *)
(* one dispatch batch lead to the same result in whatever order they are   *)
(* delivered: the same transfer to the initiator, the same fees, the same  *)
(* conversions and swaps for the next stage, or the same failure.          *)
(***************************************************************************)
C18_OrderIndependent ==
    planning.step = "delivered" => planning.first = planning.second


(***************************************************************************)
(* C19.  Once every callback of a batch has been counted and the           *)
(* transition has fired, a callback of that batch delivered again for the  *)
(* same id fails and leaves the records as they were: after completion     *)
(* (the records are gone) and after a transition to a later stage or       *)
(* phase alike.                                                            *)
(***************************************************************************)
Transitioned ==
    \/ 1 \notin DOMAIN planning.states
    \/ planning.states[1].current_stage_index > 0
    \/ planning.states[1].awaiting # "Swaps"

C19_StaleCallbackFails ==
    planning.step = "redelivered" /\ Transitioned =>
        /\ planning.out.err # "none"
        /\ planning.after.states = planning.states
        /\ planning.after.plans = planning.plans


(***************************************************************************)
(* C20.  The handler of a submission or of a callback of one execution id  *)
(* leaves the RoutePlan and the ExecutionState of every other id as they   *)
(* were, and returns what it would return were the records of the other    *)
(* ids not there; and a RoutePlan, from the submission that creates it to  *)
(* the completion that deletes it, never changes.                          *)
(***************************************************************************)
OwnRecords(map, id) == [k \in DOMAIN map \cap {id} |-> map[k]]

OthersUntouched(before, after, id) ==
    /\ DOMAIN before \ {id} = DOMAIN after \ {id}
    /\ \A b \in DOMAIN before \ {id} : after[b] = before[b]

C20_OwnRecordsOnly ==
    [][planning.step = "running" =>
          /\ OthersUntouched(planning.states, planning'.states, planning'.handled.id)
          /\ OthersUntouched(planning.plans, planning'.plans, planning'.handled.id)
          /\ \A id \in DOMAIN planning.plans \cap DOMAIN planning'.plans :
                planning'.plans[id] = planning.plans[id]
          /\ planning'.handled.reply # <<>> =>
                planning'.handled.out =
                    handle_reply(OwnRecords(planning.states, planning'.handled.id),
                                 OwnRecords(planning.plans, planning'.handled.id),
                                 planning'.handled.id, planning'.handled.reply[1],
                                 fee_map, config, TRUE)]_vars

\* execution 2 has completed and deleted its records while those of
\* execution 1 are in place
C20_Witness ==
    /\ planning.step = "running"
    /\ planning.handled.id = 2
    /\ planning.handled.reply # <<>>
    /\ planning.handled.out.store = "remove"
    /\ DOMAIN planning.plans = {1}
    /\ DOMAIN planning.states = {1}


(***************************************************************************)
(* C21.  Every accepted execution comes to an end, completed (records      *)
(* deleted) or aborted, when every call is eventually answered or fails:   *)
(* no accepted route keeps the engine dispatching for ever, or waiting     *)
(* with no call outstanding.                                               *)
(***************************************************************************)
Ended ==
    \/ planning.step = "failed"
    \/ planning.step = "running" /\ DOMAIN planning.states = {}

C21_Terminates == (planning.step = "running") ~> Ended


(***************************************************************************)
(* What a step that handles a reply shows: the state of the execution      *)
(* before and after, the calls the handler added, the payouts it made.     *)
(***************************************************************************)
Answered == status = "running" /\ status' \in {"running", "done"}
StateBefore == execution_states[TxId]
StateAfter == execution_states'[TxId]
Kept == TxId \in DOMAIN execution_states'
NewCalls == SubSeq(pending', Len(pending), Len(pending'))
NewPayouts == SelectSeq(NewTransfers, IsPayout)

\* the handler moved the execution on: to the next stage, to the conversions
\* before it, from those to its swaps, or to the settlement
TransitionFired ==
    \/ ~Kept
    \/ StateAfter.current_stage_index # StateBefore.current_stage_index
    \/ StateBefore.awaiting = "Swaps"
          /\ StateAfter.awaiting \in {"Conversions", "FinalConversions"}
    \/ StateBefore.awaiting = "Conversions" /\ StateAfter.awaiting = "Swaps"

\* the handler counted the reply and left others outstanding
CountedOnly ==
    /\ Kept
    /\ StateAfter.replies_expected = StateBefore.replies_expected - 1
    /\ StateAfter.replies_expected > 0
    /\ StateAfter.awaiting = StateBefore.awaiting
    /\ NewCalls = <<>>
    /\ NewPayouts = <<>>

\* the handler took a split one hop further within its stage
HopTaken ==
    /\ Kept
    /\ StateAfter.replies_expected = StateBefore.replies_expected
    /\ StateAfter.accumulated_assets = StateBefore.accumulated_assets
    /\ Len(NewCalls) = 1
    /\ NewPayouts = <<>>

(***************************************************************************)
(* C22 as stated.  A handler that does not bring replies_expected to 0     *)
(* only persists the state: it issues no swap, no conversion and no        *)
(* transfer to the initiator.                                              *)
(***************************************************************************)
C22_OnlyPersistsUntilZero ==
    [][Answered /\ ~TransitionFired => NewCalls = <<>> /\ NewPayouts = <<>>]_vars

(***************************************************************************)
(* C22, amended.  The execution moves on (swaps or conversions of the next *)
(* stage, settlement) only in the handler that brings replies_expected to  *)
(* 0, when no other call is outstanding; a handler that counts a reply and *)
(* leaves others outstanding only persists the state; any other handler    *)
(* takes one split one hop further within the stage (the next hop, or the  *)
(* conversion before it) and leaves replies_expected as it was.            *)
(***************************************************************************)
C22_TransitionAtZeroOnly ==
    [][Answered =>
          /\ TransitionFired =>
                StateBefore.replies_expected = 1 /\ Len(pending) = 1
          /\ ~TransitionFired => CountedOnly \/ HopTaken]_vars

\* a reply was counted with others outstanding, and nothing was dispatched
C22_Witness ==
    /\ status = "running"
    /\ last.action = "accumulating_path_outputs"
    /\ TxId \in DOMAIN execution_states
    /\ execution_states[TxId].replies_expected > 0
    /\ Len(pending) = execution_states[TxId].replies_expected
    /\ execution_states[TxId].accumulated_assets # <<>>


(***************************************************************************)
(* What the last handled reply of SpecReplies shows.                       *)
(***************************************************************************)
ReplyHandled == planning.step \in {"running", "failed"} /\ planning.handled.reply # <<>>
SwapReplyHandled == ReplyHandled /\ planning.handled.call.kind = "swap"
HandledEvents == planning.handled.reply[1].events

\* the events that carry an amount under one of the two completion keys
CompletionRecords ==
    {i \in 1..Len(HandledEvents) :
        \/ has_attr(HandledEvents[i], "return_amount")
        \/ has_attr(HandledEvents[i], "swap_final_amount")}

MalformedRecord ==
    \E i \in CompletionRecords :
        ~HandledEvents[i].attrs[amount_key(HandledEvents[i])].ok

(***************************************************************************)
(* C23.  A swap callback whose result holds no completion record (no       *)
(* return_amount or swap_final_amount attribute), or one whose amount does *)
(* not parse, aborts the execution; it is not counted as a completed swap. *)
(***************************************************************************)
C23_BadCallbackAborts ==
    SwapReplyHandled /\ (CompletionRecords = {} \/ MalformedRecord)
        => planning.handled.out.err # "none"


(***************************************************************************)
(* C24.  A swap callback is attributed to the operation that was           *)
(* dispatched at the venue address it reports: the output it reports is    *)
(* accumulated as the asset that operation asks for; and a callback whose  *)
(* address matches no operation of the current stage aborts.               *)
(***************************************************************************)
ReportedAddresses ==
    {HandledEvents[i].attrs["_contract_address"] : i \in CompletionRecords}

StageAddresses ==
    LET stage == planning.plans[1].stages[planning.states[1].current_stage_index + 1]
    IN  UNION {{get_operation_address(stage[i].path[j]) : j \in 1..Len(stage[i].path)}
               : i \in 1..Len(stage)}

C24_AttributedToDispatchedOp ==
    /\ ( /\ SwapReplyHandled
         /\ CompletionRecords # {}
         /\ planning.handled.out.err = "none"
         /\ planning.handled.out.store = "save"
         /\ planning.handled.out.action = "accumulating_path_outputs" )
       => LET acc == planning.handled.out.es.accumulated_assets
          IN  acc[Len(acc)].info = get_operation_output(planning.handled.call.op[1])
    /\ ( /\ SwapReplyHandled
         /\ planning.step = "failed"
         /\ CompletionRecords # {}
         /\ ReportedAddresses \cap StageAddresses = {} )
       => planning.handled.out.err # "none"


(***************************************************************************)
(* What SpecSettle shows of the accumulation the settlement started from.  *)
(***************************************************************************)
SettleTarget == planning.held[1].info
SettleOthers == SelectSeq(planning.held, LAMBDA a : a.info # SettleTarget)
SettleReady ==
    SumSeq([i \in 1..Len(planning.held) |->
               IF planning.held[i].info = SettleTarget
               THEN planning.held[i].amount ELSE 0])
SettlementStarted == planning.step \in {"settling", "settled", "failed"}

(***************************************************************************)
(* C25.  At the settlement of a non-empty accumulation the target is the   *)
(* AssetInfo of the first accumulated asset; one conversion is issued for  *)
(* each accumulated asset of another AssetInfo, for its amount; awaiting   *)
(* becomes FinalConversions with replies_expected the number of those      *)
(* calls; and the amount finally transferred, to the initiator and in the  *)
(* target asset, is the sum of the amounts held in the target plus the     *)
(* amounts the conversion callbacks reported.                              *)
(***************************************************************************)
C25_FinalNormalization ==
    SettlementStarted /\ planning.held # <<>> =>
        /\ planning.issued =
               [i \in 1..Len(SettleOthers) |-> create_conversion_msg(SettleOthers[i])]
        /\ planning.step = "settling" =>
               /\ planning.states[1].awaiting = "FinalConversions"
               /\ planning.states[1].replies_expected = Len(planning.calls)
               /\ planning.calls # <<>>
               /\ planning.states[1].accumulated_assets =
                      <<Asset(SettleTarget, SettleReady + planning.reported)>>
               /\ planning.out.msgs = <<>>
        /\ planning.step = "settled" =>
               /\ planning.calls = <<>>
               /\ planning.out.final_received = SettleReady + planning.reported
               /\ planning.out.msgs =
                      IF SettleReady + planning.reported = 0 THEN <<>>
                      ELSE <<create_send_msg(USER, SettleTarget,
                                             SettleReady + planning.reported, "payout")>>

\* a settlement that needed two conversions has paid out
C25_Witness ==
    /\ planning.step = "settled"
    /\ Len(planning.issued) = 2
    /\ planning.reported > 0
    /\ SettleReady > 0
    /\ planning.out.msgs # <<>>


(***************************************************************************)
(* C26.  When nothing is accumulated at the settlement, the execution      *)
(* succeeds, with both records deleted and no transfer and no call issued, *)
(* exactly when minimum_receive is 0; otherwise it fails with              *)
(* MinimumReceiveNotMet and the records stay.                              *)
(***************************************************************************)
C26_EmptySettlement ==
    SettlementStarted /\ planning.held = <<>> =>
        IF planning.minimum = 0
        THEN /\ planning.step = "settled"
             /\ planning.out.err = "none"
             /\ planning.out.msgs = <<>>
             /\ planning.out.submsgs = <<>>
             /\ DOMAIN planning.states = {}
             /\ DOMAIN planning.plans = {}
        ELSE /\ planning.step = "failed"
             /\ planning.out.err = "MinimumReceiveNotMet"
             /\ DOMAIN planning.states = {1}
             /\ DOMAIN planning.plans = {1}

\* an empty accumulation was refused for a minimum that is not zero
C26_Witness ==
    /\ planning.step = "failed"
    /\ planning.held = <<>>
    /\ planning.minimum # 0
    /\ planning.out.err = "MinimumReceiveNotMet"


(***************************************************************************)
(* What a step of SpecReplies that answers a stage conversion shows.       *)
(***************************************************************************)
ConversionAnswered ==
    /\ planning.step = "running"
    /\ planning'.step = "running"
    /\ 1 \in DOMAIN planning.states
    /\ planning.states[1].awaiting = "Conversions"

\* the swap call of a planned swap at an AMM venue
PlannedCall(swap) ==
    SubMsg("swap", get_operation_address(swap.operation), "AmmSwap",
           get_operation_input(swap.operation), swap.amount, <<swap.operation>>)

\* the conversion was counted and, being the last, the given planned swaps
\* were dispatched
ConversionCounted(es, after, out, todo) ==
    /\ out.msgs = <<>>
    /\ IF es.replies_expected > 1
       THEN /\ after = [es EXCEPT !.replies_expected = @ - 1]
            /\ out.submsgs = <<>>
       ELSE /\ out.submsgs = [i \in 1..Len(todo) |-> PlannedCall(todo[i])]
            /\ after = [es EXCEPT !.awaiting = "Swaps",
                                  !.replies_expected = Len(todo),
                                  !.pending_swaps = <<>>]

HopsAfter(stage, op) ==
    UNION { { stage[s].path[k + 1] :
                  k \in { j \in 1..(Len(stage[s].path) - 1) : stage[s].path[j] = op } } :
            s \in 1..Len(stage) }

HopAnswered ==
    /\ Answered
    /\ Kept
    /\ StateBefore.awaiting = "Swaps"
    /\ Len(outputs') = Len(outputs) + 1

MismatchedNextHops ==
    { next \in HopsAfter(route_plans[TxId].stages[StateBefore.current_stage_index + 1],
                         AnsweredSwap.op) :
          get_operation_input(next) # get_operation_output(AnsweredSwap.op) }

PathOpRecorded ==
    \A id \in DOMAIN execution_states :
        (execution_states[id].pending_path_op # <<>>)
            <=> (execution_states[id].awaiting = "PathConversion")

(***************************************************************************)
(* C28.  When a hop returns an asset that is not the next hop's input, the *)
(* handler records the next hop in pending_path_op, sets awaiting =        *)
(* PathConversion and issues one conversion, for the returned asset and    *)
(* amount.  The conversion's callback dispatches the recorded hop, clears  *)
(* pending_path_op, sets awaiting = Swaps and leaves replies_expected and  *)
(* everything else of the state as it was.  pending_path_op is set exactly *)
(* while awaiting = PathConversion.                                        *)
(***************************************************************************)
C28_PathConversion ==
    [][/\ HopAnswered /\ MismatchedNextHops # {} =>
              \E next \in MismatchedNextHops :
                  /\ StateAfter =
                         [StateBefore EXCEPT
                              !.awaiting = "PathConversion",
                              !.pending_path_op =
                                  <<[operation |-> next,
                                     amount |-> AnsweredSwap.amount]>>]
                  /\ Len(NewCalls) = 1
                  /\ NewCalls[1].call.kind = "convert"
                  /\ NewCalls[1].call.info = get_operation_output(AnsweredSwap.op)
                  /\ NewCalls[1].call.amount = AnsweredSwap.amount
                  /\ NewPayouts = <<>>
       /\ Answered /\ StateBefore.awaiting = "PathConversion" =>
              /\ Kept
              /\ StateAfter = [StateBefore EXCEPT !.awaiting = "Swaps",
                                                  !.pending_path_op = <<>>]
              /\ Len(NewCalls) = 1
              /\ NewCalls[1].call.kind = "swap"
              /\ NewCalls[1].call.op =
                     <<StateBefore.pending_path_op[1].operation>>
              /\ NewPayouts = <<>>
       /\ PathOpRecorded'
      ]_vars

\* a path conversion was answered and the recorded hop is outstanding
C28_Witness ==
    /\ status = "running"
    /\ last.action = "resuming_path_after_conversion"
    /\ Len(pending) = 1
    /\ pending[1].call.kind = "swap"
    /\ pending[1].call.op = <<Amm4>>
    /\ execution_states[TxId].awaiting = "Swaps"
    /\ execution_states[TxId].pending_path_op = <<>>


(***************************************************************************)
(* C29.  No outbound call is issued with a zero amount: neither a swap, a  *)
(* stage, path or final conversion among the calls a handler leaves        *)
(* outstanding, nor a transfer to the initiator or the fee collector among *)
(* the messages of its response.                                           *)
(***************************************************************************)
C29_NoZeroAmountCall ==
    planning.step = "running" =>
        /\ \A i \in 1..Len(planning.calls[1]) : planning.calls[1][i].amount # 0
        /\ \A i \in 1..Len(planning.handled.out.msgs) :
               planning.handled.out.msgs[i].amount # 0


(***************************************************************************)
(* The stages whose venues reported an output in the transaction, and what *)
(* the splits of a stage paid out at the end of their paths.               *)
(***************************************************************************)
StageOps(stage) ==
    UNION { { stage[s].path[k] : k \in 1..Len(stage[s].path) } : s \in 1..Len(stage) }

PaidStages ==
    { k \in 1..Len(tx_input.stages) :
          \E i \in 1..Len(outputs) : outputs[i].op \in StageOps(tx_input.stages[k]) }

StagePaidOut(stage) ==
    SumSeq([i \in 1..Len(outputs) |->
              IF \E s \in 1..Len(stage) :
                     stage[s].path # <<>> /\ LastOp(stage[s]) = outputs[i].op
              THEN outputs[i].amount ELSE 0])

(***************************************************************************)
(* C30.  When an execution is committed, what the venues paid out in the   *)
(* last stage executed has left the engine: the transfers to the initiator *)
(* and to the fee collector add up to the outputs reported at the end of   *)
(* the paths of that stage.                                                *)
(***************************************************************************)
C30_ProceedsLeaveEngine ==
    (status = "done" /\ result = "committed" /\ PaidStages # {}) =>
        SumSeq(TransferAmounts(transfers)) =
            StagePaidOut(tx_input.stages[CHOOSE k \in PaidStages :
                                             \A j \in PaidStages : j <= k])


(***************************************************************************)
(* The moves of the persisted phase in one step, for an execution whose    *)
(* state is stored before and after the step.                              *)
(***************************************************************************)
PhaseMove(before, after, stages) ==
    /\ before.awaiting = "Conversions" =>
           \/ after.awaiting = "Swaps"
           \/ /\ after.awaiting = "Conversions"
              /\ after.replies_expected < before.replies_expected
              /\ after.current_stage_index = before.current_stage_index
    /\ before.awaiting = "PathConversion" => after.awaiting = "Swaps"
    /\ before.awaiting = "FinalConversions" => after.awaiting = "FinalConversions"
    /\ (after.awaiting = "Conversions" /\ before.awaiting # "Conversions") =>
           before.awaiting = "Swaps" /\ before.replies_expected = 1
    /\ after.awaiting = "PathConversion" => before.awaiting = "Swaps"
    /\ (after.awaiting = "FinalConversions" /\ before.awaiting # "FinalConversions") =>
           /\ before.awaiting = "Swaps"
           /\ before.replies_expected = 1
           /\ before.current_stage_index = Len(stages) - 1

(***************************************************************************)
(* C31.  The persisted phase only moves along the state diagram: a state   *)
(* is created awaiting Swaps or Conversions; Conversions and               *)
(* PathConversion are followed by Swaps; Conversions is entered from a     *)
(* Swaps batch whose last reply is handled, PathConversion from Swaps,     *)
(* FinalConversions from the last reply of the swaps of the last stage;    *)
(* FinalConversions is left only by the removal of the state.              *)
(***************************************************************************)
C31_PhaseDiagram ==
    [][\A id \in DOMAIN execution_states' :
           IF id \in DOMAIN execution_states
           THEN execution_states'[id] # execution_states[id] =>
                    PhaseMove(execution_states[id], execution_states'[id],
                              route_plans[id].stages)
           ELSE execution_states'[id].awaiting \in {"Swaps", "Conversions"}]_vars

\* both swaps of a single stage are answered and the execution is awaiting
\* its final conversion
C31_Witness ==
    /\ status = "running"
    /\ TxId \in DOMAIN execution_states
    /\ execution_states[TxId].awaiting = "FinalConversions"
    /\ execution_states[TxId].current_stage_index = 1
    /\ Len(outputs) = 2
    /\ Len(pending) = 1
    /\ pending[1].call.kind = "convert"


(***************************************************************************)
(* A step of SpecReplies that answers a swap call with a well-formed       *)
(* completion record while the execution awaits a path conversion.         *)
(***************************************************************************)
SwapAnsweredInPathConversion ==
    /\ planning.step = "running"
    /\ planning.states[1].awaiting = "PathConversion"
    /\ planning'.handled.reply # <<>>
    /\ planning'.handled.call.kind = "swap"
    /\ planning'.handled.reply[1].events =
           <<SwapReplyEvent(planning'.handled.call, planning'.handled.call.amount)>>

(***************************************************************************)
(* C32.  A swap callback that arrives while awaiting = PathConversion is   *)
(* handled as a swap result, never as the conversion's result: it is       *)
(* accepted, counted against replies_expected or accumulated, and the      *)
(* recorded hop and the phase stay as they were for the conversion still   *)
(* outstanding.                                                            *)
(***************************************************************************)
C32_SwapCallbackHandledAsSwap ==
    [][SwapAnsweredInPathConversion =>
           /\ planning'.handled.out.err = "none"
           /\ planning'.handled.out.es.awaiting = "PathConversion"
           /\ planning'.handled.out.es.pending_path_op =
                  planning.states[1].pending_path_op
           /\ planning'.handled.out.es.replies_expected =
                  planning.states[1].replies_expected - 1]_vars


(***************************************************************************)
(* The completion record of a handled swap reply whose venue address       *)
(* identified the split, and the amount it carries.                        *)
(***************************************************************************)
IdentifyingRecord == HandledEvents[find_swap_event(HandledEvents)]

IdentifiedAmount == IdentifyingRecord.attrs[amount_key(IdentifyingRecord)].n

SwapReplyAccepted ==
    /\ SwapReplyHandled
    /\ planning.handled.out.err = "none"
    /\ find_swap_event(HandledEvents) # 0
    /\ has_attr(IdentifyingRecord, amount_key(IdentifyingRecord))

(***************************************************************************)
(* C33.  The amount a swap callback contributes is the amount of the       *)
(* completion record whose venue address identified the split: the next    *)
(* hop or the path conversion is issued with it, and at the end of a path  *)
(* it is, less the venue's fee, the amount accumulated.                    *)
(***************************************************************************)
C33_AmountFromIdentifyingRecord ==
    SwapReplyAccepted =>
        /\ planning.handled.out.action
               \in {"proceeding_to_next_op_in_path", "performing_path_conversion"} =>
               planning.handled.out.submsgs[1].amount = IdentifiedAmount
        /\ planning.handled.out.action = "accumulating_path_outputs" =>
               planning.handled.out.es.accumulated_assets[
                   Len(planning.handled.out.es.accumulated_assets)].amount =
                   amount_after_fee(IdentifiedAmount,
                                    fee_for(fee_map,
                                            IdentifyingRecord.attrs["_contract_address"],
                                            IdentifiedAmount))


(***************************************************************************)
(* The transfer-style events of a reply that name the engine as their      *)
(* destination, and a step of SpecReplies that answers a path conversion   *)
(* or a final conversion.                                                  *)
(***************************************************************************)
TransfersToEngine(events) ==
    { i \in 1..Len(events) :
          \/ /\ events[i].ty = "transfer"
             /\ has_attr(events[i], "recipient")
             /\ events[i].attrs["recipient"] = SELF
          \/ /\ is_wasm(events[i])
             /\ has_attr(events[i], "action")
             /\ events[i].attrs["action"] = "transfer"
             /\ has_attr(events[i], "to")
             /\ events[i].attrs["to"] = SELF }

ParsedConversionAnswered ==
    /\ planning.step = "running"
    /\ planning.states[1].awaiting \in {"PathConversion", "FinalConversions"}
    /\ planning'.handled.reply # <<>>
    /\ planning'.handled.call.kind = "convert"

(***************************************************************************)
(* C34.  The amount of a path conversion or final conversion callback      *)
(* comes from a transfer-style event whose destination is the engine: a    *)
(* callback with no such event is rejected and the execution aborts.       *)
(***************************************************************************)
C34_ConvertedAmountFromOwnTransfer ==
    [][(ParsedConversionAnswered
          /\ TransfersToEngine(planning'.handled.reply[1].events) = {})
           => planning'.handled.out.err # "none"]_vars


(***************************************************************************)
(* C35.  simulate_route feeds each split of a stage the input amount that  *)
(* the executor's planner allocates to it from the same held assets.       *)
(***************************************************************************)
C35_SimulatorAllocatesAsPlanner ==
    Planned =>
        \A i \in 1..Len(planning.stage) :
            simulated_amount_for_split(planning.held, planning.stage, i) =
                planning.stage_plan.swaps_to_execute[i].amount


(***************************************************************************)
(* The administration entry points, as functions of CONFIG, FEE_MAP and    *)
(* the sender, and a specification that calls them from every sender.      *)
(***************************************************************************)
AdminResult(err, cfg, fees) == [err |-> err, config |-> cfg, fee_map |-> fees]

update_admin(cfg, fees, sender, new_admin) ==
    IF sender # cfg.admin THEN AdminResult("Unauthorized", cfg, fees)
    ELSE AdminResult("none", [cfg EXCEPT !.admin = new_admin], fees)

set_fee(cfg, fees, sender, pool_address, fee_percent) ==
    IF sender # cfg.admin THEN AdminResult("Unauthorized", cfg, fees)
    ELSE IF ~fee_rate_valid(fee_percent) THEN AdminResult("Std", cfg, fees)
    ELSE AdminResult("none", cfg, [fees EXCEPT ![pool_address] = <<fee_percent>>])

\* remove_fee without the comparison of the sender with the admin
remove_fee_by_anyone(cfg, fees, sender, pool_address) ==
    AdminResult("none", cfg, [fees EXCEPT ![pool_address] = <<>>])

remove_fee(cfg, fees, sender, pool_address) ==
    IF sender # cfg.admin THEN AdminResult("Unauthorized", cfg, fees)
    ELSE AdminResult("none", cfg, [fees EXCEPT ![pool_address] = <<>>])

update_fee_collector(cfg, fees, sender, new_fee_collector) ==
    IF sender # cfg.admin THEN AdminResult("Unauthorized", cfg, fees)
    ELSE AdminResult("none", [cfg EXCEPT !.fee_collector = new_fee_collector], fees)

AdminSenders == {ADMIN, USER, "admin_2"}

\* the record of one call: what was stored before it, who sent what, and
\* what is stored after it
AdminCalled(kind, sender, r) ==
    /\ planning.step \in {"installed", "called"}
    /\ planning' = [step |-> "called", kind |-> kind, sender |-> sender,
                    before |-> [config |-> planning.config,
                                fee_map |-> planning.fee_map],
                    err |-> r.err,
                    config |-> IF r.err = "none" THEN r.config ELSE planning.config,
                    fee_map |-> IF r.err = "none" THEN r.fee_map ELSE planning.fee_map]
    /\ UNCHANGED exec_vars

InitAdmin ==
    /\ InitExec
    /\ planning = [step |-> "installed", config |-> config, fee_map |-> fee_map]

CallUpdateAdmin(sender, new_admin) ==
    AdminCalled("update_admin", sender,
                update_admin(planning.config, planning.fee_map, sender, new_admin))

CallSetFee(sender, pool_address, fee_percent) ==
    AdminCalled("set_fee", sender,
                set_fee(planning.config, planning.fee_map, sender, pool_address,
                        fee_percent))

CallRemoveFee(sender, pool_address) ==
    AdminCalled("remove_fee", sender,
                remove_fee(planning.config, planning.fee_map, sender, pool_address))

CallUpdateFeeCollector(sender, new_fee_collector) ==
    AdminCalled("update_fee_collector", sender,
                update_fee_collector(planning.config, planning.fee_map, sender,
                                     new_fee_collector))

NextAdmin ==
    \/ \E sender \in AdminSenders, new_admin \in AdminSenders :
          CallUpdateAdmin(sender, new_admin)
    \/ \E sender \in AdminSenders, pool \in FeeVenues, rate \in FeeRates :
          CallSetFee(sender, pool, rate)
    \/ \E sender \in AdminSenders, pool \in FeeVenues : CallRemoveFee(sender, pool)
    \/ \E sender \in AdminSenders, collector \in Collectors :
          CallUpdateFeeCollector(sender, collector)

SpecAdmin == InitAdmin /\ [][NextAdmin]_vars

(***************************************************************************)
(* C36.  UpdateAdmin, SetFee, RemoveFee and UpdateFeeCollector succeed     *)
(* only when sent by the admin stored at the time of the call; from any    *)
(* other sender they fail with Unauthorized and leave CONFIG and FEE_MAP   *)
(* as they were; a successful UpdateAdmin stores the new admin, so that    *)
(* the previous one is from then on such another sender.                   *)
(***************************************************************************)
C36_AdminOnly ==
    planning.step = "called" =>
        /\ planning.err = "none" => planning.sender = planning.before.config.admin
        /\ planning.sender # planning.before.config.admin =>
               /\ planning.err = "Unauthorized"
               /\ planning.config = planning.before.config
               /\ planning.fee_map = planning.before.fee_map
        /\ (planning.kind = "update_admin" /\ planning.err = "none") =>
               \E new_admin \in AdminSenders :
                   planning.config = [planning.before.config EXCEPT !.admin = new_admin]

\* the admin of the installation, replaced by an earlier UpdateAdmin, is
\* refused the removal of a fee that is set
C36_Witness ==
    /\ planning.step = "called"
    /\ planning.kind = "remove_fee"
    /\ planning.sender = ADMIN
    /\ planning.before.config.admin = "admin_2"
    /\ planning.err = "Unauthorized"
    /\ \E pool \in FeeVenues : planning.fee_map[pool] # <<>>


(***************************************************************************)
(* C37.  Between handler invocations replies_expected of the execution in  *)
(* progress is the number of its calls dispatched and not yet answered,    *)
(* whatever the phase: while it is in progress its state is stored and at  *)
(* least one call is outstanding, and when it is committed none is.        *)
(***************************************************************************)
C37_RepliesExpectedCountsCalls ==
    /\ status = "running" =>
          /\ TxId \in DOMAIN execution_states
          /\ execution_states[TxId].replies_expected = Len(pending)
          /\ \A j \in 1..Len(pending) : pending[j].id = TxId
          /\ pending # <<>>
    /\ (status = "done" /\ result = "committed") =>
          /\ pending = <<>>
          /\ TxId \notin DOMAIN execution_states

\* the second hop of one split is outstanding beside the swap of another
C37_Witness ==
    /\ status = "running"
    /\ execution_states[TxId].awaiting = "Swaps"
    /\ execution_states[TxId].replies_expected = 2
    /\ Len(pending) = 2
    /\ \E j \in 1..2 : pending[j].call.addr = "amm2"
    /\ \E j \in 1..2 : pending[j].call.addr = "ob1"


(***************************************************************************)
(* C38.  Every persisted ExecutionState has replies_expected >= 1, and no  *)
(* callback handler finds the counter at 0 when it decrements it (the      *)
(* unsigned subtraction never underflows).                                 *)
(***************************************************************************)
C38_CounterAtLeastOne ==
    \A id \in DOMAIN execution_states : execution_states[id].replies_expected >= 1

C38_NoUnderflow == status = "running" => last'.err # "Panic"

C38_CounterNeverUnderflows == []C38_CounterAtLeastOne /\ [][C38_NoUnderflow]_vars

\* the first of two swap replies was counted and the state saved with one
\* reply expected
C38_Witness ==
    /\ status = "running"
    /\ last.action = "accumulating_path_outputs"
    /\ execution_states[TxId].replies_expected = 1
    /\ Len(pending) = 1
    /\ Len(outputs) = 1


(***************************************************************************)
(* C39.  Between handler invocations a RoutePlan is stored for an id if    *)
(* and only if an ExecutionState is stored for it.  An accepted submission *)
(* leaves the transaction in progress with both records of its id stored   *)
(* and at least one call outstanding; completion removes both records.     *)
(***************************************************************************)
C39_RecordsTogether ==
    status # "failed" =>
        /\ DOMAIN route_plans = DOMAIN execution_states
        /\ (status = "done" /\ result = "committed") => ~HasRecord(TxId)

C39_SubmissionDispatches ==
    (status = "idle" /\ status' \notin {"idle", "failed"}) =>
        /\ status' = "running"
        /\ tx_input'.reply_id \in DOMAIN execution_states'
        /\ tx_input'.reply_id \in DOMAIN route_plans'
        /\ pending' # <<>>

C39_StateIffPlan == []C39_RecordsTogether /\ [][C39_SubmissionDispatches]_vars

\* a second execution is in progress with both of its records stored, the
\* first having been completed and its records removed
C39_Witness ==
    /\ status = "running"
    /\ tx_count = 2
    /\ reply_id_counter = 2
    /\ DOMAIN route_plans = {2}
    /\ DOMAIN execution_states = {2}
    /\ pending # <<>>


(***************************************************************************)
(* C40.  current_stage_index never decreases during an execution.  Every   *)
(* persisted state awaiting Swaps, Conversions or PathConversion has       *)
(* current_stage_index below the number of stages of its plan; every       *)
(* persisted state awaiting FinalConversions has current_stage_index equal *)
(* to the number of stages and exactly one accumulated asset.              *)
(***************************************************************************)
C40_StageIndexInRange ==
    \A id \in DOMAIN execution_states \cap DOMAIN route_plans :
        LET es == execution_states[id]
            n  == Len(route_plans[id].stages)
        IN  /\ es.awaiting \in {"Swaps", "Conversions", "PathConversion"} =>
                   es.current_stage_index < n
            /\ es.awaiting = "FinalConversions" =>
                   /\ es.current_stage_index = n
                   /\ Len(es.accumulated_assets) = 1

C40_StageIndexNotDecreasing ==
    \A id \in DOMAIN execution_states \cap DOMAIN execution_states' :
        execution_states'[id].current_stage_index >=
            execution_states[id].current_stage_index

C40_StageIndex ==
    []C40_StageIndexInRange /\ [][C40_StageIndexNotDecreasing]_vars

\* every stage has been answered and the execution awaits the conversions
\* of its final settlement with the running total as its only accumulated
\* asset
C40_Witness ==
    /\ status = "running"
    /\ TxId \in DOMAIN execution_states
    /\ TxId \in DOMAIN route_plans
    /\ execution_states[TxId].awaiting = "FinalConversions"
    /\ execution_states[TxId].current_stage_index = Len(route_plans[TxId].stages)
    /\ Len(execution_states[TxId].accumulated_assets) = 1
    /\ \E i \in 1..Len(pending) : pending[i].call.kind = "convert"

====
